---- MODULE Spec2Model ----
(***************************************************************************)
(* A model of the JSON value library of src/json.c: reference counted      *)
(* Values, the member hash table, the element array, the construction     *)
(* API, and (further down) the lexer, the parser and the serializer.      *)
(*                                                                         *)
(* The heap is explicit.  Every malloc'ed block keeps its identity for    *)
(* ever (ids are never reused), so a dangling pointer stays visible: a    *)
(* block records how many times free() was called on it.                  *)
(***************************************************************************)
EXTENDS Integers, Sequences, FiniteSets, TLC

VARIABLES mem,      \* the heap: Values, string buffers, allocation fuel, fault
          held,     \* held[j]: references to Value j the caller owns
          root,     \* the Value the scenario is about (an object or an array)
          last,     \* a record of the last API call and what it returned
          iter,     \* the caller's json_obj_next loop
          shadow,   \* what the caller has set so far: key -> Value id
          plan      \* the scenario's inputs, drawn when it starts

vars == <<mem, held, root, last, iter, shadow, plan>>

(***************************************************************************)
(* Bounds of the model.                                                    *)
(***************************************************************************)
NumKeys == 26          \* distinct member names of the growth scenario
MaxRepeats == 1        \* puts of an already present key, growth scenario
RepeatKeys == 2        \* the keys that may be put again, growth scenario
IterKeys == 4          \* distinct member names of the iteration scenario
IterPuts == 5          \* json_obj_set calls of the iteration scenario
MaxVals == 4           \* Values the caller constructs, API scenario
MaxOps == 4            \* API calls of the API scenario
ArrOps == 5            \* API calls of the array scenario
MaxReserve == 10       \* the largest json_array_reserve, array scenario
MaxFuel == 13          \* allocations granted, out of memory scenario
OomOps == 3            \* API calls of the out of memory scenario
MaxPrefix == 29        \* bytes taken of a document, parse scenario

NULL == 0
\* The content of storage realloc() returned and nobody wrote yet.
GARBAGE == -1
\* size_t's largest value; the model only needs it to exceed every length.
SIZE_MAX == 2147483647

(***************************************************************************)
(* Small helpers.                                                          *)
(***************************************************************************)
Max(a, b) == IF a > b THEN a ELSE b

\* A local variable of the code: v is computed once, where the declaration
\* stands, and Rest is what follows with the variable holding it.
With(v, Rest(_)) == Rest(v)

RECURSIVE BitXor(_, _, _)
BitXor(a, b, bits) ==
    IF bits = 0 THEN 0
    ELSE (((a % 2) + (b % 2)) % 2) + 2 * BitXor(a \div 2, b \div 2, bits - 1)

\* strcmp: <0, 0, >0 on byte strings (sequences of 0..255).
RECURSIVE strcmp(_, _)
strcmp(s, t) ==
    IF s = <<>> /\ t = <<>> THEN 0
    ELSE IF s = <<>> THEN -1
    ELSE IF t = <<>> THEN 1
    ELSE IF Head(s) # Head(t) THEN Head(s) - Head(t)
    ELSE strcmp(Tail(s), Tail(t))

(***************************************************************************)
(* Numbers.  A double is modelled by the decimal mant * 10^exp it stands   *)
(* for, mant not divisible by 10: exact for the decimals of at most 15     *)
(* significant digits, which a double tells apart.  atof and printf's %g   *)
(* are computed on the characters, as strtod and printf compute them.      *)
(***************************************************************************)
RECURSIVE Double(_, _)
Double(mant, exp) ==
    IF mant = 0 THEN [mant |-> 0, exp |-> 0]
    ELSE IF mant % 10 = 0 THEN Double(mant \div 10, exp + 1)
    ELSE [mant |-> mant, exp |-> exp]

RECURSIVE Pow10(_)
Pow10(n) == IF n <= 0 THEN 1 ELSE 10 * Pow10(n - 1)

\* The longest prefix of s made of decimal digits.
RECURSIVE DigitRun(_)
DigitRun(s) ==
    IF s # <<>> /\ Head(s) \in 48..57 THEN <<Head(s)>> \o DigitRun(Tail(s))
    ELSE <<>>

\* The number a sequence of decimal digits denotes.
RECURSIVE DigitsValue(_, _)
DigitsValue(acc, s) ==
    IF s = <<>> THEN acc ELSE DigitsValue((acc * 10) + (Head(s) - 48), Tail(s))

Drop(s, n) == SubSeq(s, n + 1, Len(s))

\* atof(str): strtod's longest prefix [-]digits[.digits][e[+-]digits] with a
\* digit in the mantissa, 0 when there is none.
atof(str) ==
    LET neg == str # <<>> /\ Head(str) = 45
        s1 == IF str # <<>> /\ Head(str) \in {43, 45} THEN Tail(str) ELSE str
        ip == DigitRun(s1)
        s2 == Drop(s1, Len(ip))
        fp == IF s2 # <<>> /\ Head(s2) = 46 THEN DigitRun(Tail(s2)) ELSE <<>>
        s3 == IF s2 # <<>> /\ Head(s2) = 46 THEN Drop(s2, Len(fp) + 1) ELSE s2
        hasE == s3 # <<>> /\ Head(s3) \in {69, 101}
        s4 == IF hasE THEN Tail(s3) ELSE <<>>
        eneg == s4 # <<>> /\ Head(s4) = 45
        s5 == IF s4 # <<>> /\ Head(s4) \in {43, 45} THEN Tail(s4) ELSE s4
        ep == DigitRun(s5)
        e == IF eneg THEN 0 - DigitsValue(0, ep) ELSE DigitsValue(0, ep)
        mant == DigitsValue(0, ip \o fp)
    IN IF ip \o fp = <<>> THEN Double(0, 0)
       ELSE Double(IF neg THEN 0 - mant ELSE mant, e - Len(fp))

\* The decimal digits of n >= 0.
RECURSIVE DecDigits(_)
DecDigits(n) ==
    IF n < 10 THEN <<48 + n>> ELSE DecDigits(n \div 10) \o <<48 + (n % 10)>>

RECURSIVE StripZeros(_)
StripZeros(s) ==
    IF s # <<>> /\ s[Len(s)] = 48 THEN StripZeros(SubSeq(s, 1, Len(s) - 1)) ELSE s

Zeros(n) == [i \in 1..n |-> 48]

\* snprintf(buffer, sizeof buffer, "%g", x): 6 significant digits, rounded
\* half to even; scientific notation when the exponent is below -4 or at
\* least 6; trailing zeros and a trailing '.' removed.
\* The numbers of the scenarios that need rounding are integers, which a
\* double holds exactly; a decimal fraction on a tie rounds by its binary
\* value, which this decimal arithmetic does not follow.
FormatG(x) ==
    IF x.mant = 0 THEN <<48>>
    ELSE LET abs == IF x.mant < 0 THEN 0 - x.mant ELSE x.mant
             k == Len(DecDigits(abs))
             cut == Pow10(k - 6)
             q0 == IF k <= 6 THEN abs * Pow10(6 - k) ELSE abs \div cut
             rest == IF k <= 6 THEN 0 ELSE abs % cut
             up == k > 6 /\ ((2 * rest > cut) \/ (2 * rest = cut /\ q0 % 2 = 1))
             q1 == IF up THEN q0 + 1 ELSE q0
             carry == q1 = 1000000
             q == IF carry THEN 100000 ELSE q1
             X == ((x.exp + k) - 1) + (IF carry THEN 1 ELSE 0)
             d == DecDigits(q)
             sign == IF x.mant < 0 THEN <<45>> ELSE <<>>
             point(frac) == IF frac = <<>> THEN <<>> ELSE <<46>> \o frac
             absX == IF X < 0 THEN 0 - X ELSE X
         IN IF X < -4 \/ X >= 6
            THEN sign \o <<d[1]>> \o point(StripZeros(Tail(d)))
                 \o <<101, IF X < 0 THEN 45 ELSE 43>>
                 \o (IF absX < 10 THEN <<48>> ELSE <<>>) \o DecDigits(absX)
            ELSE IF X >= 0
            THEN sign \o SubSeq(d, 1, X + 1) \o point(StripZeros(Drop(d, X + 1)))
            ELSE sign \o <<48>> \o point(Zeros((0 - X) - 1) \o StripZeros(d))

(***************************************************************************)
(* The heap.  fuel is the number of allocations that still succeed        *)
(* (-1: no limit).  fault is the first undefined behaviour the run hit.   *)
(***************************************************************************)
\* An Emitter without storage, a TreeNodes without storage, and the
\* ParserContext of a program that is not parsing.
NoEmitter == [n |-> 0, a |-> 0, cap |-> 0, buffer |-> <<>>, freed |-> 0]
NoNodes == [n |-> 0, a |-> 0, cap |-> 0, array |-> <<>>, freed |-> 0]
NoParser == [text |-> <<>>, beyond |-> <<>>, stale |-> 0, in |-> 0, sym |-> 0,
             lineno |-> 0, e |-> NoEmitter, internNodes |-> NoNodes,
             rootIndex |-> -1]

\* errors is what the json_error sink was handed, pc the ParserContext of
\* the json_parse call in progress (or of the last one).
EmptyMem == [vals |-> <<>>, strs |-> <<>>, fuel |-> -1, fault |-> "none",
             errors |-> <<>>, pc |-> NoParser]

CanAlloc(m) == m.fuel # 0
Took(m) == IF m.fuel > 0 THEN [m EXCEPT !.fuel = @ - 1] ELSE m
Fault(m, what) == IF m.fault = "none" THEN [m EXCEPT !.fault = what] ELSE m

LiveStr(m, s) == s \in 1..Len(m.strs) /\ m.strs[s].freed = 0
LiveVal(m, j) == j \in 1..Len(m.vals) /\ m.vals[j].freed = 0

\* The bytes a char* points at.  Reading a freed buffer is undefined: the
\* model records the fault and hands back the stale bytes.
StrData(m, s) == m.strs[s].data

str_make(m, str) ==
    IF ~CanAlloc(m)
    THEN [m |-> Fault(m, "null_deref"), r |-> NULL]
    ELSE [m |-> [Took(m) EXCEPT !.strs =
                    Append(@, [data |-> str, rc |-> 1, freed |-> 0,
                               nret |-> 0, nrel |-> 0])],
          r |-> Len(m.strs) + 1]

str_release(m, s) ==
    IF s = NULL THEN Fault(m, "null_deref")
    ELSE LET b == m.strs[s]
             m1 == IF b.freed > 0 THEN Fault(m, "use_after_free") ELSE m
         IN IF b.rc = 1
            THEN [m1 EXCEPT !.strs[s].rc = 0, !.strs[s].freed = @ + 1,
                            !.strs[s].nrel = @ + 1]
            ELSE [m1 EXCEPT !.strs[s].rc = IF b.rc = 0 THEN SIZE_MAX ELSE b.rc - 1,
                            !.strs[s].nrel = @ + 1]

\* A str_retain that leaves the count alone.
str_retain_not(m, s) == m

str_retain(m, s) ==
    LET b == m.strs[s]
        m1 == IF b.freed > 0 THEN Fault(m, "use_after_free") ELSE m
    IN [m1 EXCEPT !.strs[s].rc = IF b.rc = SIZE_MAX THEN 0 ELSE b.rc + 1,
                  !.strs[s].nret = @ + 1]

(***************************************************************************)
(* Hash table (json.c, "Hash Table").                                      *)
(***************************************************************************)
HASH_SIZE == 8

\* FNV-1a.  The code computes 32 bits and only ever uses hash & mask with
\* mask < 2^16; xor and multiplication carry no information downwards, so
\* the low 16 bits are computed exactly from the low 16 bits of the
\* offset basis 0x811c9dc5 and of the prime 0x01000193.
RECURSIVE hash_from(_, _)
hash_from(h, s) ==
    IF s = <<>> THEN h
    ELSE hash_from((((h - (h % 256)) + BitXor(h % 256, Head(s), 8)) * 403) % 65536,
                   Tail(s))

hash(s) == hash_from(40389, s)

EmptySlot == [name |-> NULL, value |-> NULL]

\* A probe that stops at empty slots only, whatever the names it passes.
RECURSIVE find_probe_empty(_, _, _, _, _, _)
find_probe_empty(m, elements, mask, name, h, steps) ==
    IF steps > mask + 1 THEN -1
    ELSE IF elements[h + 1].name = NULL THEN h
    ELSE find_probe_empty(m, elements, mask, name, (h + 1) % (mask + 1), steps + 1)

\* The slot find_entry returns (0-based), or -1 when its loop never ends.
RECURSIVE find_probe(_, _, _, _, _, _)
find_probe(m, elements, mask, name, h, steps) ==
    IF steps > mask + 1 THEN -1
    ELSE IF elements[h + 1].name = NULL
            \/ strcmp(StrData(m, elements[h + 1].name), name) = 0
         THEN h
         ELSE find_probe(m, elements, mask, name, (h + 1) % (mask + 1), steps + 1)

find_entry(m, elements, mask, name) ==
    find_probe(m, elements, mask, name, hash(name) % (mask + 1), 1)

NoTable == [allocated |-> 0, count |-> 0, table |-> <<>>]
NoArray == [n |-> 0, a |-> 0, elements |-> <<>>]

\* ht_create: two allocations, the struct and its slots.
ht_create(m) ==
    IF ~CanAlloc(m) THEN [m |-> m, ok |-> FALSE, ht |-> NoTable]
    ELSE LET m1 == Took(m)
         IN IF ~CanAlloc(m1) THEN [m |-> m, ok |-> FALSE, ht |-> NoTable]
            ELSE [m |-> Took(m1), ok |-> TRUE,
                  ht |-> [allocated |-> HASH_SIZE, count |-> 0,
                          table |-> [i \in 1..HASH_SIZE |-> EmptySlot]]]

(***************************************************************************)
(* json_release, with ht_destroy and ar_destroy, which it calls and which  *)
(* call it back for every child.                                           *)
(***************************************************************************)
RECURSIVE json_release(_, _)
RECURSIVE ht_destroy_from(_, _, _)
RECURSIVE ar_destroy_from(_, _, _)

\* for(i = 0; i < ht->allocated; i++) of ht_destroy, from slot i on.
ht_destroy_from(m, ht, i) ==
    IF i >= ht.allocated THEN m
    ELSE LET v == ht.table[i + 1]
         IN IF v.name # NULL
            THEN ht_destroy_from(json_release(str_release(m, v.name), v.value),
                                 ht, i + 1)
            ELSE ht_destroy_from(m, ht, i + 1)

ht_destroy(m, ht) == ht_destroy_from(m, ht, 0)

\* An ar_destroy that starts at element 1.
ar_destroy_skip_first(m, a) == ar_destroy_from(m, a, 1)

\* for(i = 0; i < a->n; i++) of ar_destroy, from element i on.
ar_destroy_from(m, a, i) ==
    IF i >= a.n THEN m
    ELSE IF i >= Len(a.elements) \/ a.elements[i + 1] = GARBAGE
         THEN Fault(m, "wild_read")
         ELSE ar_destroy_from(json_release(m, a.elements[i + 1]), a, i + 1)

ar_destroy(m, a) == ar_destroy_from(m, a, 0)

json_release(m, j) ==
    IF j = NULL THEN m
    ELSE LET v == m.vals[j]
             m0 == IF v.freed > 0 THEN Fault(m, "use_after_free") ELSE m
             m1 == [m0 EXCEPT !.vals[j].refcount =
                                  IF v.refcount = 0 THEN SIZE_MAX ELSE v.refcount - 1,
                              !.vals[j].nrel = @ + 1]
         IN IF v.refcount = 1
            THEN LET m2 == CASE v.type = "j_string" -> str_release(m1, v.string)
                             [] v.type = "j_object" -> ht_destroy(m1, v.object)
                             [] v.type = "j_array" -> ar_destroy(m1, v.array)
                             [] OTHER -> m1
                 IN [m2 EXCEPT !.vals[j].freed = @ + 1]
            ELSE m1

json_retain(m, j) ==
    LET v == m.vals[j]
        m0 == IF v.freed > 0 THEN Fault(m, "use_after_free") ELSE m
    IN [m0 EXCEPT !.vals[j].refcount = IF v.refcount = SIZE_MAX THEN 0 ELSE v.refcount + 1,
                  !.vals[j].nret = @ + 1]

(***************************************************************************)
(* ht_put, ht_get, ht_next.  A table is the value.object field of the     *)
(* object Value o that owns it.                                            *)
(***************************************************************************)
\* A growth that copies every entry to the slot it had, without reprobing.
RECURSIVE rehash_same_slot(_, _, _, _)
rehash_same_slot(m, old, new_table, i) ==
    IF i > Len(old) - 1 THEN new_table
    ELSE rehash_same_slot(m, old, [new_table EXCEPT ![i + 1] = old[i + 1]], i + 1)

\* The rehash loop of ht_put: slots i.. of the old table into new_table.
RECURSIVE rehash_from(_, _, _, _)
rehash_from(m, old, new_table, i) ==
    IF i > Len(old) - 1 THEN new_table
    ELSE LET from == old[i + 1]
         IN IF from.name # NULL
            THEN LET to == find_entry(m, new_table, Len(new_table) - 1,
                                      StrData(m, from.name))
                 IN rehash_from(m, old, [new_table EXCEPT ![to + 1] = from], i + 1)
            ELSE rehash_from(m, old, new_table, i + 1)

ht_put(m, o, name, j) ==
    LET ht == m.vals[o].object
        f == find_entry(m, ht.table, ht.allocated - 1, StrData(m, name))
    IN IF f = -1 THEN [m |-> Fault(m, "endless_loop"), r |-> NULL]
       ELSE IF ht.table[f + 1].name # NULL
       THEN \* Replacing an existing entry
            LET m1 == json_release(str_release(m, ht.table[f + 1].name),
                                   ht.table[f + 1].value)
            IN [m |-> [m1 EXCEPT !.vals[o].object.table[f + 1] =
                                     [name |-> name, value |-> j]],
                r |-> j]
       ELSE IF ht.count >= (ht.allocated * 3) \div 4
       THEN \* grow the table
            IF ~CanAlloc(m) THEN [m |-> m, r |-> NULL]
            ELSE LET new_size == ht.allocated * 2
                     new_table == rehash_from(m, ht.table,
                                      [i \in 1..new_size |-> EmptySlot], 0)
                     f2 == find_entry(m, new_table, new_size - 1, StrData(m, name))
                 IN [m |-> [Took(m) EXCEPT !.vals[o].object =
                               [allocated |-> new_size, count |-> ht.count + 1,
                                table |-> [new_table EXCEPT ![f2 + 1] =
                                              [name |-> name, value |-> j]]]],
                     r |-> j]
       ELSE [m |-> [m EXCEPT !.vals[o].object.count = @ + 1,
                             !.vals[o].object.table[f + 1] =
                                 [name |-> name, value |-> j]],
             r |-> j]

\* name is the caller's string here, not a heap buffer.
ht_get(m, o, name) ==
    LET ht == m.vals[o].object
        v == find_entry(m, ht.table, ht.allocated - 1, name)
    IN IF v # -1 /\ ht.table[v + 1].name # NULL THEN ht.table[v + 1].value ELSE NULL

\* The first loop of ht_next: the slot that holds name, or -1 when the loop
\* hands strcmp the NULL name of an empty slot.
RECURSIVE next_locate(_, _, _, _, _)
next_locate(m, ht, name, h, steps) ==
    IF steps > ht.allocated THEN -1
    ELSE IF ht.table[h + 1].name = NULL THEN -1
    ELSE IF strcmp(StrData(m, ht.table[h + 1].name), name) = 0 THEN h
    ELSE next_locate(m, ht, name, (h + 1) % ht.allocated, steps + 1)

\* A second loop that gives up at the first empty slot.
next_occupied_no_skip(ht, h) ==
    IF h >= ht.allocated THEN NULL ELSE ht.table[h + 1].name

\* The second loop of ht_next: the first occupied slot from h on, as the
\* name it holds, or NULL.
RECURSIVE next_occupied(_, _)
next_occupied(ht, h) ==
    IF h >= ht.allocated THEN NULL
    ELSE IF ht.table[h + 1].name # NULL THEN ht.table[h + 1].name
    ELSE next_occupied(ht, h + 1)

\* ht_next(ht, name): hasName is name != NULL, name are the bytes it points
\* at.  r is the buffer returned (NULL at the end), fault what went wrong.
ht_next(m, o, hasName, name) ==
    LET ht == m.vals[o].object
    IN IF ~(ht.count < ht.allocated) THEN [r |-> NULL, fault |-> "assert"]
       ELSE IF ~hasName THEN [r |-> next_occupied(ht, 0), fault |-> "none"]
       ELSE LET h == next_locate(m, ht, name, hash(name) % ht.allocated, 1)
            IN IF h = -1 THEN [r |-> NULL, fault |-> "null_deref"]
               ELSE [r |-> next_occupied(ht, h + 1), fault |-> "none"]

(***************************************************************************)
(* Arrays (json.c, "Arrays").  elements is the storage really allocated:   *)
(* a is what the struct says its capacity is.                              *)
(***************************************************************************)
ARRAY_INITIAL_SIZE == 8

ar_create(m) ==
    IF ~CanAlloc(m) THEN [m |-> m, ok |-> FALSE, ar |-> NoArray]
    ELSE LET m1 == Took(m)
         IN IF ~CanAlloc(m1) THEN [m |-> m, ok |-> FALSE, ar |-> NoArray]
            ELSE [m |-> Took(m1), ok |-> TRUE,
                  ar |-> [n |-> 0, a |-> ARRAY_INITIAL_SIZE,
                          elements |-> [i \in 1..ARRAY_INITIAL_SIZE |-> NULL]]]

\* a->elements[a->n++] = v
ar_store(m, o, v) ==
    LET a == m.vals[o].array
    IN IF a.n >= Len(a.elements)
       THEN [m |-> Fault(m, "out_of_bounds_write"), r |-> NULL]
       ELSE [m |-> [m EXCEPT !.vals[o].array.elements[a.n + 1] = v,
                             !.vals[o].array.n = a.n + 1],
             r |-> v]

ar_append(m, o, v) ==
    LET a == m.vals[o].array
    IN IF a.n = a.a
       THEN LET grown == a.a + (a.a \div 2)
            IN IF ~CanAlloc(m)
               THEN \* a->elements = old; a->a keeps the new capacity
                    [m |-> [m EXCEPT !.vals[o].array.a = grown], r |-> NULL]
               ELSE ar_store([Took(m) EXCEPT
                                 !.vals[o].array.a = grown,
                                 !.vals[o].array.elements =
                                     [i \in 1..grown |->
                                         IF i <= Len(a.elements)
                                         THEN a.elements[i] ELSE GARBAGE]],
                             o, v)
       ELSE ar_store(m, o, v)

(***************************************************************************)
(* Constructors (json.c, "Accessors").  JSON_REENTRANT is 1, the default:  *)
(* json_null, json_true and json_false allocate.                           *)
(***************************************************************************)
BlankValue(type) ==
    [type |-> type, number |-> Double(0, 0), string |-> NULL, object |-> NoTable,
     array |-> NoArray, refcount |-> 1, freed |-> 0, nret |-> 0, nrel |-> 0]

new_value(m, type) ==
    IF ~CanAlloc(m) THEN [m |-> m, r |-> NULL]
    ELSE [m |-> [Took(m) EXCEPT !.vals = Append(@, BlankValue(type))],
          r |-> Len(m.vals) + 1]

\* free(j) of a Value the constructor gives up.
free_value(m, j) == [m EXCEPT !.vals[j].freed = @ + 1]

json_new_object(m) ==
    LET j == new_value(m, "j_object")
    IN IF j.r = NULL THEN j
       ELSE LET h == ht_create(j.m)
            IN IF ~h.ok THEN [m |-> free_value(h.m, j.r), r |-> NULL]
               ELSE [m |-> [h.m EXCEPT !.vals[j.r].object = h.ht], r |-> j.r]

json_new_array(m) ==
    LET j == new_value(m, "j_array")
    IN IF j.r = NULL THEN j
       ELSE LET h == ar_create(j.m)
            IN IF ~h.ok THEN [m |-> free_value(h.m, j.r), r |-> NULL]
               ELSE [m |-> [h.m EXCEPT !.vals[j.r].array = h.ar], r |-> j.r]

json_null(m) == new_value(m, "j_null")
json_true(m) == new_value(m, "j_true")
json_false(m) == new_value(m, "j_false")

\* hasText is text != NULL.
json_new_string(m, hasText, text) ==
    IF ~hasText THEN json_null(m)
    ELSE LET v == new_value(m, "j_string")
         IN IF v.r = NULL THEN v
            ELSE LET s == str_make(v.m, text)
                 IN IF s.r = NULL THEN [m |-> s.m, r |-> NULL]
                    ELSE [m |-> [s.m EXCEPT !.vals[v.r].string = s.r], r |-> v.r]

json_new_number(m, n) ==
    LET v == new_value(m, "j_number")
    IN IF v.r = NULL THEN v
       ELSE [m |-> [v.m EXCEPT !.vals[v.r].number = n], r |-> v.r]

(***************************************************************************)
(* Object and array accessors.                                             *)
(***************************************************************************)
json_obj_get(m, j, name) == ht_get(m, j, name)

json_obj_next(m, j, hasName, name) == ht_next(m, j, hasName, name)

json_obj_set(m, obj, k, v) ==
    LET key == str_make(m, k)
    IN IF key.r = NULL THEN [m |-> key.m, r |-> obj]
       ELSE LET nv == IF v = NULL THEN json_null(key.m) ELSE [m |-> key.m, r |-> v]
            IN [m |-> ht_put(nv.m, obj, key.r, nv.r).m, r |-> obj]

json_obj_set_number(m, obj, k, n) ==
    LET v == json_new_number(m, n)
    IN json_obj_set(v.m, obj, k, v.r)

\* An int compared with a size_t is converted to size_t first.
ToSizeT(n) == IF n < 0 THEN (SIZE_MAX + n) + 1 ELSE n

json_array_len(m, j) == m.vals[j].array.n

json_array_get(m, array, n) ==
    IF ToSizeT(n) < m.vals[array].array.n
    THEN m.vals[array].array.elements[n + 1]
    ELSE NULL

\* A json_array_set that forgets the Value the slot held.
json_array_set_no_release(m, j, n, v) ==
    IF ~(ToSizeT(n) < m.vals[j].array.n)
    THEN [m |-> Fault(m, "assert"), r |-> j]
    ELSE [m |-> [m EXCEPT !.vals[j].array.elements[n + 1] = v], r |-> j]

json_array_set(m, j, n, v) ==
    IF ~(ToSizeT(n) < m.vals[j].array.n)
    THEN [m |-> Fault(m, "assert"), r |-> j]
    ELSE LET old == m.vals[j].array.elements[n + 1]
         IN [m |-> json_release([m EXCEPT !.vals[j].array.elements[n + 1] = v], old),
             r |-> j]

\* A json_array_reserve whose loop runs while n <= the requested length.
RECURSIVE json_array_reserve_one_more(_, _, _)
json_array_reserve_one_more(m, j, n) ==
    IF m.fault # "none" \/ ~(m.vals[j].array.n <= n) THEN [m |-> m, r |-> j]
    ELSE LET z == json_null(m)
         IN json_array_reserve_one_more(ar_append(z.m, j, z.r).m, j, n)

\* while(j->value.array->n < n) ar_append(j->value.array, json_null());
RECURSIVE json_array_reserve(_, _, _)
json_array_reserve(m, j, n) ==
    IF m.fault # "none" \/ ~(m.vals[j].array.n < n) THEN [m |-> m, r |-> j]
    ELSE LET z == json_null(m)
         IN json_array_reserve(ar_append(z.m, j, z.r).m, j, n)

json_array_add(m, array, value) ==
    LET nv == IF value = NULL THEN json_null(m) ELSE [m |-> m, r |-> value]
    IN [m |-> ar_append(nv.m, array, nv.r).m, r |-> array]

json_array_add_number(m, array, number) ==
    LET v == json_new_number(m, number)
    IN json_array_add(v.m, array, v.r)

(***************************************************************************)
(* Scenario "grow": one object, json_obj_set_number with up to NumKeys     *)
(* distinct one-byte names, taken in an order drawn at the start, and      *)
(* now and then a name that is already present.                            *)
(***************************************************************************)
Key(i) == <<97 + i>>
GrowKeys == {Key(i) : i \in 0..(NumKeys - 1)}

\* The k-th new name of the plan (k from 0).
PlannedKey(p, k) == Key((NumKeys + (p.dir * k)) % NumKeys)

NoIter == [on |-> FALSE, key |-> NULL, seen |-> <<>>, done |-> FALSE,
           mutated |-> FALSE, inserted |-> FALSE]
Idle == [op |-> "none"]
NoShadow == [k \in {} |-> NULL]
NoHeld == <<>>

GrowInit ==
    /\ \E dir \in {1, -1} : plan = [dir |-> dir, nnew |-> 0, nrep |-> 0]
    /\ LET o == json_new_object(EmptyMem)
       IN mem = o.m /\ root = o.r
    /\ held = NoHeld
    /\ last = Idle
    /\ iter = NoIter
    /\ shadow = NoShadow

\* json_obj_set_number(obj, k, n): a fresh number Value under name k.
GrowSet(k, n) ==
    LET c == json_obj_set_number(mem, root, k, Double(n, 0))
    IN /\ mem' = c.m
       /\ shadow' = (k :> Len(mem.vals) + 1) @@ shadow
       /\ last' = [op |-> "json_obj_set", key |-> k,
                   replaced |-> k \in DOMAIN shadow,
                   grew |-> c.m.vals[root].object.allocated
                            > mem.vals[root].object.allocated]
       /\ UNCHANGED <<held, root, iter>>

GrowSetNew ==
    /\ plan.nnew < NumKeys
    /\ GrowSet(PlannedKey(plan, plan.nnew), plan.nnew)
    /\ plan' = [plan EXCEPT !.nnew = @ + 1]

GrowSetAgain ==
    /\ plan.nrep < MaxRepeats
    /\ \E i \in 0..(RepeatKeys - 1) :
           /\ i < plan.nnew
           /\ GrowSet(PlannedKey(plan, i), 100 + plan.nnew)
    /\ plan' = [plan EXCEPT !.nrep = @ + 1]

GrowNext == GrowSetNew \/ GrowSetAgain

SpecGrow == GrowInit /\ [][GrowNext]_vars

\* C1: after any sequence of json_obj_set calls on one object, repeated
\* names and table growths included, json_obj_get returns for every name
\* ever set the Value set last for it, and NULL for every name never set.
C1_GetReturnsLastSet ==
    \A k \in GrowKeys :
        json_obj_get(mem, root, k) = (IF k \in DOMAIN shadow THEN shadow[k] ELSE NULL)

\* The table has grown three times (8 -> 64 slots), a name was set twice
\* before the growths and the last call set a name that was present.
C1_Witness ==
    /\ mem.vals[root].object.allocated >= 64
    /\ plan.nrep >= 1
    /\ last.op = "json_obj_set" /\ last.replaced
    /\ \E k \in DOMAIN shadow : json_obj_get(mem, root, k) = shadow[k]

(***************************************************************************)
(* Scenario "iterate": one object, json_obj_set_number with IterKeys       *)
(* names that collide in the 8-slot table, and one json_obj_next loop of   *)
(* the caller, which may or may not set members while it runs.             *)
(***************************************************************************)
\* 'h', 'p', 'x' hash to slot 7 of 8, 'i', 'q', 'y' to slot 4, ...
IterKey(i) == <<104 + (8 * (i % 3)) + (i \div 3)>>
IterKeySet == {IterKey(i) : i \in 0..(IterKeys - 1)}

\* The slots in use, ascending (0-based).
OccupiedSlots(ht) ==
    SelectSeq([i \in 1..ht.allocated |-> i - 1], LAMBDA h : ht.table[h + 1].name # NULL)

\* The slot whose name is the buffer s, or -1.
SlotOf(ht, s) ==
    IF \E h \in 0..(ht.allocated - 1) : ht.table[h + 1].name = s
    THEN CHOOSE h \in 0..(ht.allocated - 1) : ht.table[h + 1].name = s
    ELSE -1

\* What reading the bytes of buffer s can give: its content, or, once the
\* buffer is freed, whatever the allocator left or put there.
ReadBytes(m, s) ==
    IF LiveStr(m, s) THEN {StrData(m, s)}
    ELSE {StrData(m, s), <<>>} \cup IterKeySet

IterInit ==
    /\ plan = [nputs |-> 0]
    /\ LET o == json_new_object(EmptyMem)
       IN mem = o.m /\ root = o.r
    /\ held = NoHeld
    /\ last = Idle
    /\ iter = NoIter
    /\ shadow = NoShadow

IterSet ==
    /\ mem.fault = "none"
    /\ plan.nputs < IterPuts
    /\ ~iter.done
    /\ \E k \in IterKeySet :
           LET c == json_obj_set_number(mem, root, k, Double(plan.nputs, 0))
           IN /\ mem' = c.m
              /\ shadow' = (k :> Len(mem.vals) + 1) @@ shadow
              /\ last' = [op |-> "json_obj_set", key |-> k,
                          replaced |-> k \in DOMAIN shadow]
              /\ iter' = IF iter.on
                         THEN [iter EXCEPT !.mutated = TRUE,
                                           !.inserted = @ \/ k \notin DOMAIN shadow]
                         ELSE iter
    /\ plan' = [plan EXCEPT !.nputs = @ + 1]
    /\ UNCHANGED <<held, root>>

\* What the caller's loop records of a json_obj_next result r.
Visit(it, m, r) ==
    IF r.fault # "none" \/ r.r = NULL
    THEN [it EXCEPT !.on = TRUE, !.key = NULL, !.done = TRUE]
    ELSE [it EXCEPT !.on = TRUE, !.key = r.r,
                    !.seen = Append(@, [name |-> StrData(m, r.r),
                                        slot |-> SlotOf(m.vals[root].object, r.r)])]

\* name = json_obj_next(obj, NULL)
IterStart ==
    /\ mem.fault = "none"
    /\ ~iter.on
    /\ LET r == json_obj_next(mem, root, FALSE, <<>>)
       IN /\ iter' = Visit(iter, mem, r)
          /\ mem' = Fault(mem, r.fault)
          /\ last' = [op |-> "json_obj_next", first |-> TRUE]
    /\ UNCHANGED <<held, root, shadow, plan>>

\* name = json_obj_next(obj, name)
IterStep ==
    /\ mem.fault = "none"
    /\ iter.on /\ ~iter.done
    /\ \E bytes \in ReadBytes(mem, iter.key) :
           LET r == json_obj_next(mem, root, TRUE, bytes)
               m1 == IF LiveStr(mem, iter.key) THEN mem
                     ELSE Fault(mem, "use_after_free")
           IN /\ iter' = Visit(iter, mem, r)
              /\ mem' = Fault(m1, r.fault)
              /\ last' = [op |-> "json_obj_next", first |-> FALSE]
    /\ UNCHANGED <<held, root, shadow, plan>>

IterNext == IterSet \/ IterStart \/ IterStep

SpecIter == IterInit /\ [][IterNext]_vars

SeenNames(it) == [i \in 1..Len(it.seen) |-> it.seen[i].name]

\* C6: with no mutation in between, json_obj_next(obj, NULL),
\* json_obj_next(obj, k1), ... returns every present key exactly once, in
\* ascending table-slot order, then NULL; the number of keys returned is
\* the member count (none for an empty object).
C6_NextVisitsEachKeyOnce ==
    (iter.on /\ ~iter.mutated) =>
        LET ht == mem.vals[root].object
            occ == OccupiedSlots(ht)
        IN /\ mem.fault = "none"
           /\ Len(iter.seen) <= Len(occ)
           /\ \A i \in 1..Len(iter.seen) :
                  /\ iter.seen[i].slot = occ[i]
                  /\ iter.seen[i].name = StrData(mem, ht.table[occ[i] + 1].name)
           /\ \A i, j \in 1..Len(iter.seen) :
                  i # j => iter.seen[i].name # iter.seen[j].name
           /\ iter.done => /\ Len(iter.seen) = ht.count
                           /\ {iter.seen[i].name : i \in 1..Len(iter.seen)}
                              = DOMAIN shadow
           /\ ~iter.done => /\ Len(iter.seen) >= 1
                            /\ iter.key = ht.table[iter.seen[Len(iter.seen)].slot + 1].name

\* A finished loop over an object whose names collided: a key sits in a
\* slot that is not its hash slot, and three keys or more were returned.
C6_Witness ==
    /\ iter.on /\ iter.done /\ ~iter.mutated
    /\ Len(iter.seen) >= 3
    /\ \E i \in 1..Len(iter.seen) :
           iter.seen[i].slot # hash(iter.seen[i].name) % mem.vals[root].object.allocated

\* C7 (the claim as stated): overwriting the value of an existing key
\* between two json_obj_next calls leaves the key json_obj_next returned
\* before in live storage, and the loop still visits each key exactly once.
C7_OverwriteKeepsIteration ==
    (iter.on /\ iter.mutated /\ ~iter.inserted) =>
        /\ mem.fault = "none"
        /\ iter.key # NULL => LiveStr(mem, iter.key)
        /\ \A i, j \in 1..Len(iter.seen) :
               i # j => iter.seen[i].name # iter.seen[j].name
        /\ iter.done => {iter.seen[i].name : i \in 1..Len(iter.seen)} = DOMAIN shadow

(***************************************************************************)
(* Scenario "API": a caller that builds Values with the constructors,      *)
(* retains and releases them and puts them into objects and arrays.  The   *)
(* caller follows the ownership rule of json.c:1566-1589: it passes to a   *)
(* setter, and releases, only references it owns (held), and it builds no  *)
(* cycle.                                                                  *)
(***************************************************************************)
ApiKeys == {<<104>>, <<112>>}
ApiTexts == {<<>>, <<104>>}

\* held, extended over the Values allocated meanwhile.
Grown(h, m) == [j \in 1..Len(m.vals) |-> IF j <= Len(h) THEN h[j] ELSE 0]

\* The Values an object or array refers to, one entry per slot.
ObjRefs(v) == {h \in 1..v.object.allocated : v.object.table[h].name # NULL}
ArrRefs(v) == 1..v.array.n
Children(m, j) ==
    LET v == m.vals[j]
    IN {v.object.table[h].value : h \in ObjRefs(v)}
       \cup {v.array.elements[i] : i \in ArrRefs(v)}

RECURSIVE Descendants(_, _, _)
Descendants(m, js, depth) ==
    IF depth = 0 THEN js
    ELSE Descendants(m, js \cup UNION {Children(m, j) : j \in js \ {NULL, GARBAGE}},
                     depth - 1)

\* Putting v into container o closes no cycle.
NoCycle(m, o, v) == o \notin Descendants(m, {v}, Len(m.vals))

\* The number of slots of live containers that refer to Value c.
RefsTo(m, c) ==
    Cardinality(UNION {{<<j, "o", h>> : h \in {x \in ObjRefs(m.vals[j]) :
                                                m.vals[j].object.table[x].value = c}}
                       \cup {<<j, "a", i>> : i \in {x \in ArrRefs(m.vals[j]) :
                                                m.vals[j].array.elements[x] = c}} :
                       j \in {x \in 1..Len(m.vals) : m.vals[x].freed = 0}})

\* The number of key slots and string Values that refer to buffer s.
StrRefsTo(m, s) ==
    Cardinality(UNION {{<<j, "o", h>> : h \in {x \in ObjRefs(m.vals[j]) :
                                                m.vals[j].object.table[x].name = s}}
                       \cup (IF m.vals[j].type = "j_string" /\ m.vals[j].string = s
                             THEN {<<j, "s", 0>>} ELSE {}) :
                       j \in {x \in 1..Len(m.vals) : m.vals[x].freed = 0}})

IsObject(m, j) == LiveVal(m, j) /\ m.vals[j].type = "j_object"
IsArray(m, j) == LiveVal(m, j) /\ m.vals[j].type = "j_array"
Passable(m, h, v) == v = NULL \/ (v \in 1..Len(h) /\ h[v] > 0)
GaveAway(h, v) == IF v = NULL THEN h ELSE [h EXCEPT ![v] = @ - 1]

Init ==
    /\ mem = EmptyMem
    /\ held = NoHeld
    /\ root = NULL
    /\ last = Idle
    /\ iter = NoIter
    /\ shadow = NoShadow
    /\ plan = [nops |-> 0]

CanCall == mem.fault = "none" /\ plan.nops < MaxOps
Called == /\ plan' = [plan EXCEPT !.nops = @ + 1]
          /\ UNCHANGED <<root, iter, shadow>>

Constructed(c, name) ==
    /\ CanCall /\ Len(mem.vals) < MaxVals
    /\ mem' = c.m
    /\ held' = [Grown(held, c.m) EXCEPT ![c.r] = 1]
    /\ last' = [op |-> "constructor", fn |-> name, r |-> c.r]
    /\ Called

NewObject == Constructed(json_new_object(mem), "json_new_object")
NewArray == Constructed(json_new_array(mem), "json_new_array")
NewNumber == Constructed(json_new_number(mem, Double(1, 0)), "json_new_number")
NewString ==
    \E t \in ApiTexts : Constructed(json_new_string(mem, TRUE, t), "json_new_string")
NewStringOfNull == Constructed(json_new_string(mem, FALSE, <<>>), "json_new_string")
NewNull == Constructed(json_null(mem), "json_null")
NewTrue == Constructed(json_true(mem), "json_true")
NewFalse == Constructed(json_false(mem), "json_false")

Retain ==
    /\ CanCall
    /\ \E j \in 1..Len(mem.vals) :
           /\ LiveVal(mem, j)
           /\ mem' = json_retain(mem, j)
           /\ held' = [held EXCEPT ![j] = @ + 1]
           /\ last' = [op |-> "json_retain", j |-> j]
    /\ Called

Release ==
    /\ CanCall
    /\ \E j \in 1..Len(mem.vals) :
           /\ held[j] > 0
           /\ mem' = json_release(mem, j)
           /\ held' = [held EXCEPT ![j] = @ - 1]
           /\ last' = [op |-> "json_release", j |-> j,
                       before |-> mem.vals[j].refcount]
    /\ Called

ObjSet ==
    /\ CanCall
    /\ \E o \in 1..Len(mem.vals), k \in ApiKeys, v \in 0..Len(mem.vals) :
           /\ IsObject(mem, o)
           /\ Passable(mem, held, v)
           /\ v # NULL => NoCycle(mem, o, v)
           /\ LET c == json_obj_set(mem, o, k, v)
              IN /\ mem' = c.m
                 /\ held' = Grown(GaveAway(held, v), c.m)
                 /\ last' = [op |-> "json_obj_set", j |-> o, key |-> k, v |-> v,
                             same |-> v # NULL /\ json_obj_get(mem, o, k) = v,
                             before |-> IF v = NULL THEN 0 ELSE mem.vals[v].refcount,
                             retained |-> FALSE]
    /\ Called

ArrayAdd ==
    /\ CanCall
    /\ \E a \in 1..Len(mem.vals), v \in 0..Len(mem.vals) :
           /\ IsArray(mem, a)
           /\ mem.vals[a].array.n < ARRAY_INITIAL_SIZE
           /\ Passable(mem, held, v)
           /\ v # NULL => NoCycle(mem, a, v)
           /\ LET c == json_array_add(mem, a, v)
              IN /\ mem' = c.m
                 /\ held' = Grown(GaveAway(held, v), c.m)
                 /\ last' = [op |-> "json_array_add", j |-> a, v |-> v]
    /\ Called

ArraySet ==
    /\ CanCall
    /\ \E a \in 1..Len(mem.vals), v \in 0..Len(mem.vals) :
           /\ IsArray(mem, a)
           /\ Passable(mem, held, v)
           /\ v # NULL => NoCycle(mem, a, v)
           /\ \E n \in 0..(mem.vals[a].array.n - 1) :
                  LET c == json_array_set(mem, a, n, v)
                  IN /\ mem' = c.m
                     /\ held' = Grown(GaveAway(held, v), c.m)
                     /\ last' = [op |-> "json_array_set", j |-> a, n |-> n, v |-> v,
                                 same |-> v # NULL /\ json_array_get(mem, a, n) = v,
                                 before |-> IF v = NULL THEN 0
                                            ELSE mem.vals[v].refcount,
                                 retained |-> FALSE]
    /\ Called

ArrayReserve ==
    /\ CanCall
    /\ \E a \in 1..Len(mem.vals), n \in 0..2 :
           /\ IsArray(mem, a)
           /\ LET c == json_array_reserve(mem, a, n)
              IN /\ mem' = c.m
                 /\ held' = Grown(held, c.m)
                 /\ last' = [op |-> "json_array_reserve", j |-> a, n |-> n]
    /\ Called

\* json_obj_set(j, k, json_retain(json_obj_get(j, k)))   (test_json.c:57)
ObjSetSame ==
    /\ CanCall
    /\ \E o \in 1..Len(mem.vals), k \in ApiKeys :
           /\ IsObject(mem, o)
           /\ json_obj_get(mem, o, k) # NULL
           /\ LET v == json_obj_get(mem, o, k)
                  c == json_obj_set(json_retain(mem, v), o, k, v)
              IN /\ mem' = c.m
                 /\ held' = Grown(held, c.m)
                 /\ last' = [op |-> "json_obj_set", j |-> o, key |-> k, v |-> v,
                             same |-> TRUE, before |-> mem.vals[v].refcount,
                             retained |-> TRUE]
    /\ Called

\* json_array_set(a, n, json_retain(json_array_get(a, n)))   (test_json.c:36)
ArraySetSame ==
    /\ CanCall
    /\ \E a \in 1..Len(mem.vals) :
           /\ IsArray(mem, a)
           /\ \E n \in 0..(mem.vals[a].array.n - 1) :
                  /\ json_array_get(mem, a, n) # NULL
                  /\ LET v == json_array_get(mem, a, n)
                         c == json_array_set(json_retain(mem, v), a, n, v)
                     IN /\ mem' = c.m
                        /\ held' = Grown(held, c.m)
                        /\ last' = [op |-> "json_array_set", j |-> a, n |-> n,
                                    v |-> v, same |-> TRUE,
                                    before |-> mem.vals[v].refcount,
                                    retained |-> TRUE]
    /\ Called

Next ==
    \/ NewObject \/ NewArray \/ NewNumber \/ NewString \/ NewStringOfNull
    \/ NewNull \/ NewTrue \/ NewFalse
    \/ Retain \/ Release
    \/ ObjSet \/ ArrayAdd \/ ArraySet \/ ArrayReserve
    \/ ObjSetSame \/ ArraySetSame

Spec == Init /\ [][Next]_vars

\* C2: every constructor returns a Value with reference count 1; under any
\* sequence of retains and releases a Value is reclaimed exactly at the
\* release that makes releases = retains + 1, never while its count is
\* positive, and reclaiming it releases each member key, member value,
\* array element and string buffer it owns exactly once: at every moment
\* the count of a live Value or buffer is the number of its owners, and
\* nothing live refers to a reclaimed one.
C2_CountedReclaim ==
    /\ mem.fault = "none"
    /\ last.op = "constructor" =>
           /\ mem.vals[last.r].refcount = 1
           /\ mem.vals[last.r].freed = 0
           /\ held[last.r] = 1
    /\ \A j \in 1..Len(mem.vals) :
           LET v == mem.vals[j]
           IN /\ v.freed \in {0, 1}
              /\ (v.freed = 1) <=> (v.nrel = v.nret + 1)
              /\ (v.freed = 1) <=> (v.refcount = 0)
              /\ v.refcount = (1 + v.nret) - v.nrel
              /\ v.refcount = held[j] + RefsTo(mem, j)
    /\ \A s \in 1..Len(mem.strs) :
           LET b == mem.strs[s]
           IN /\ b.freed \in {0, 1}
              /\ (b.freed = 1) <=> (b.rc = 0)
              /\ b.rc = (1 + b.nret) - b.nrel
              /\ b.rc = StrRefsTo(mem, s)

\* The caller's release reclaimed an object that held a member: the member
\* key and the member's string Value went with it.
C2_Witness ==
    /\ last.op = "json_release" /\ last.before = 1
    /\ mem.vals[last.j].type = "j_object" /\ mem.vals[last.j].freed = 1
    /\ mem.vals[last.j].object.count >= 1
    /\ \E c \in 1..Len(mem.vals) :
           /\ c \in Children(mem, last.j)
           /\ mem.vals[c].type = "j_string"
           /\ mem.vals[c].freed = 1
           /\ mem.strs[mem.vals[c].string].freed = 1

\* C10: json_obj_set and json_array_set take over the caller's reference
\* and retain nothing: setting a key or an index to the Value it already
\* holds, with a reference obtained from one json_retain, leaves the Value
\* alive, still stored there, with the count it had before that retain.
C10_ResetSameKeepsCount ==
    (last.op \in {"json_obj_set", "json_array_set"} /\ last.same) =>
        /\ LiveVal(mem, last.v)
        /\ mem.fault = "none"
        /\ IF last.op = "json_obj_set"
           THEN json_obj_get(mem, last.j, last.key) = last.v
           ELSE json_array_get(mem, last.j, last.n) = last.v
        /\ mem.vals[last.v].refcount =
               (IF last.retained THEN last.before ELSE last.before - 1)

\* The statement of test_json.c:57 was executed on a member.
C10_Witness ==
    /\ last.op = "json_obj_set" /\ last.same /\ last.retained
    /\ mem.vals[last.v].refcount >= 1
    /\ json_obj_get(mem, last.j, last.key) = last.v

(***************************************************************************)
(* Scenario "array": one array and the calls test_json.c:23-38 makes on    *)
(* it: json_array_add_number, json_array_add(a, NULL), json_array_set      *)
(* with a new Value or with NULL, json_array_reserve.                      *)
(***************************************************************************)
ReserveSizes == {0, 1, 2, MaxReserve - 1, MaxReserve}

\* The indices the scenario sets: the first, the last, and the one a
\* json_array_reserve(a, n) just made room for.
SetIndices ==
    {i \in {0, mem.vals[root].array.n - 1} \cup
           (IF last.op = "json_array_reserve" THEN {last.n - 1} ELSE {}) :
        i >= 0 /\ i < mem.vals[root].array.n}

ArrInit ==
    /\ LET a == json_new_array(EmptyMem)
       IN mem = a.m /\ root = a.r
    /\ held = NoHeld
    /\ last = Idle
    /\ iter = NoIter
    /\ shadow = NoShadow
    /\ plan = [nops |-> 0]

ArrCanCall == mem.fault = "none" /\ plan.nops < ArrOps
ArrCalled == /\ plan' = [plan EXCEPT !.nops = @ + 1]
             /\ UNCHANGED <<held, root, iter, shadow>>

ArrAddNumber ==
    /\ ArrCanCall
    /\ mem' = json_array_add_number(mem, root, Double(plan.nops, 0)).m
    /\ last' = [op |-> "json_array_add", null |-> FALSE]
    /\ ArrCalled

ArrAddNull ==
    /\ ArrCanCall
    /\ mem' = json_array_add(mem, root, NULL).m
    /\ last' = [op |-> "json_array_add", null |-> TRUE]
    /\ ArrCalled

\* json_array_set(a, i, json_new_number(x))
ArrSetNumber ==
    /\ ArrCanCall
    /\ \E i \in SetIndices :
           LET v == json_new_number(mem, Double(plan.nops, 0))
           IN /\ mem' = json_array_set(v.m, root, i, v.r).m
              /\ last' = [op |-> "json_array_set", i |-> i, null |-> FALSE]
    /\ ArrCalled

\* json_array_set(a, i, NULL)
ArrSetNull ==
    /\ ArrCanCall
    /\ \E i \in SetIndices :
           /\ mem' = json_array_set(mem, root, i, NULL).m
           /\ last' = [op |-> "json_array_set", i |-> i, null |-> TRUE]
    /\ ArrCalled

ArrReserve ==
    /\ ArrCanCall
    /\ \E n \in ReserveSizes :
           /\ mem' = json_array_reserve(mem, root, n).m
           /\ last' = [op |-> "json_array_reserve", n |-> n,
                       oldn |-> mem.vals[root].array.n,
                       old |-> mem.vals[root].array.elements,
                       oldvals |-> Len(mem.vals)]
    /\ ArrCalled

ArrNext == ArrAddNumber \/ ArrAddNull \/ ArrSetNumber \/ ArrSetNull \/ ArrReserve

SpecArr == ArrInit /\ [][ArrNext]_vars

\* C8 (the claim as stated): after json_new_array and any sequence of
\* json_array_add, json_array_set and json_array_reserve calls, NULL
\* values included, length <= capacity and every slot below length holds
\* a live Value, never NULL.
C8_SlotsHoldValues ==
    LET a == mem.vals[root].array
    IN /\ a.n <= a.a
       /\ \A i \in 1..a.n : a.elements[i] # NULL /\ LiveVal(mem, a.elements[i])

\* C9: after json_array_reserve(a, n) the length is max(old length, n),
\* the elements below the old length are unchanged, every added slot
\* holds a Null Value of its own, index n-1 (n >= 1) passes
\* json_array_set's range check, and json_array_get returns NULL for
\* every index >= length and for every negative index.
C9_ReservePads ==
    LET a == mem.vals[root].array
    IN /\ \A i \in (-3..-1) \cup (a.n..(a.n + 3)) : json_array_get(mem, root, i) = NULL
       /\ last.op = "json_array_reserve" =>
              /\ mem.fault = "none"
              /\ json_array_len(mem, root) = Max(last.oldn, last.n)
              /\ \A i \in 1..last.oldn : a.elements[i] = last.old[i]
              /\ \A i \in (last.oldn + 1)..a.n :
                     /\ a.elements[i] > last.oldvals
                     /\ LiveVal(mem, a.elements[i])
                     /\ mem.vals[a.elements[i]].type = "j_null"
                     /\ mem.vals[a.elements[i]].refcount = 1
                     /\ \A k \in (last.oldn + 1)..a.n :
                            k # i => a.elements[k] # a.elements[i]
              /\ last.n >= 1 => ToSizeT(last.n - 1) < a.n
              /\ \A i \in 0..(a.n - 1) : json_array_get(mem, root, i) = a.elements[i + 1]

\* json_array_reserve(a, 10) on an array of 1..7 elements: the storage
\* grew from 8 to 12 slots, as in test_json.c:32.
C9_Witness ==
    /\ last.op = "json_array_reserve"
    /\ last.n = MaxReserve
    /\ last.oldn \in 1..7
    /\ mem.vals[root].array.a = 12
    /\ mem.vals[root].array.n = MaxReserve

(***************************************************************************)
(* Scenario "out of memory": the caller of the API scenario on a heap     *)
(* that grants plan.fuel allocations and then fails every malloc, calloc   *)
(* and realloc.                                                            *)
(***************************************************************************)
\* An allocation failed inside the call: with memory to spare the call
\* leaves another heap behind.
Failed(actual, ideal) == [actual.m EXCEPT !.fuel = -1] # ideal.m
Plenty(m) == [m EXCEPT !.fuel = -1]

OomInit ==
    /\ \E f \in 0..MaxFuel :
           /\ mem = [EmptyMem EXCEPT !.fuel = f]
           /\ plan = [nops |-> 0, fuel |-> f]
    /\ held = NoHeld
    /\ root = NULL
    /\ last = Idle
    /\ iter = NoIter
    /\ shadow = NoShadow

OomCanCall == mem.fault = "none" /\ plan.nops < OomOps
OomCalled == /\ plan' = [plan EXCEPT !.nops = @ + 1]
             /\ UNCHANGED <<root, iter, shadow>>

OomConstructed(c, ideal, name) ==
    /\ OomCanCall /\ Len(mem.vals) < MaxVals
    /\ mem' = c.m
    /\ held' = [j \in 1..Len(c.m.vals) |->
                   IF j = c.r THEN 1 ELSE IF j <= Len(held) THEN held[j] ELSE 0]
    /\ last' = [op |-> "constructor", fn |-> name, r |-> c.r,
                failed |-> Failed(c, ideal)]
    /\ OomCalled

OomNewObject ==
    OomConstructed(json_new_object(mem), json_new_object(Plenty(mem)),
                   "json_new_object")
OomNewArray ==
    OomConstructed(json_new_array(mem), json_new_array(Plenty(mem)),
                   "json_new_array")
OomNewNumber ==
    OomConstructed(json_new_number(mem, Double(1, 0)), json_new_number(Plenty(mem), Double(1, 0)),
                   "json_new_number")
OomNewString ==
    \E t \in ApiTexts :
        OomConstructed(json_new_string(mem, TRUE, t),
                       json_new_string(Plenty(mem), TRUE, t), "json_new_string")
OomNewNull == OomConstructed(json_null(mem), json_null(Plenty(mem)), "json_null")

OomObjSet ==
    /\ OomCanCall
    /\ \E o \in 1..Len(mem.vals), k \in ApiKeys, v \in 0..Len(mem.vals) :
           /\ IsObject(mem, o)
           /\ Passable(mem, held, v)
           /\ v # NULL => NoCycle(mem, o, v)
           /\ LET c == json_obj_set(mem, o, k, v)
              IN /\ mem' = c.m
                 /\ held' = Grown(GaveAway(held, v), c.m)
                 /\ last' = [op |-> "json_obj_set", fn |-> "json_obj_set", r |-> c.r,
                             failed |-> Failed(c, json_obj_set(Plenty(mem), o, k, v))]
    /\ OomCalled

OomArrayAdd ==
    /\ OomCanCall
    /\ \E a \in 1..Len(mem.vals), v \in 0..Len(mem.vals) :
           /\ IsArray(mem, a)
           /\ Passable(mem, held, v)
           /\ v # NULL => NoCycle(mem, a, v)
           /\ LET c == json_array_add(mem, a, v)
              IN /\ mem' = c.m
                 /\ held' = Grown(GaveAway(held, v), c.m)
                 /\ last' = [op |-> "json_array_add", fn |-> "json_array_add",
                             r |-> c.r,
                             failed |-> Failed(c, json_array_add(Plenty(mem), a, v))]
    /\ OomCalled

OomArrayReserve ==
    /\ OomCanCall
    /\ \E a \in 1..Len(mem.vals), n \in {1, ARRAY_INITIAL_SIZE + 1} :
           /\ IsArray(mem, a)
           /\ LET c == json_array_reserve(mem, a, n)
              IN /\ mem' = c.m
                 /\ held' = Grown(held, c.m)
                 /\ last' = [op |-> "json_array_reserve", fn |-> "json_array_reserve",
                             r |-> c.r,
                             failed |-> Failed(c, json_array_reserve(Plenty(mem), a, n))]
    /\ OomCalled

OomNext ==
    \/ OomNewObject \/ OomNewArray \/ OomNewNumber \/ OomNewString \/ OomNewNull
    \/ OomObjSet \/ OomArrayAdd \/ OomArrayReserve

SpecOOM == OomInit /\ [][OomNext]_vars

\* C5 (the claim as stated): when an allocation fails inside a
\* constructor, json_obj_set, json_array_add or json_array_reserve, the
\* call returns NULL, and no call dereferences a null pointer, writes
\* outside allocated storage or loops forever.
C5_AllocationFailureSurfaced ==
    /\ mem.fault = "none"
    /\ (last.op # "none" /\ last.failed) => last.r = NULL

(***************************************************************************)
(* Character buffer (json.c, "Character buffer").  buffer holds the n     *)
(* bytes written; the terminating NUL the code keeps behind them is        *)
(* implicit.  a is the capacity the struct records, cap the size of the    *)
(* storage really allocated.                                               *)
(***************************************************************************)
\* The C string a char array holds: the bytes before the first NUL.
RECURSIVE CStr(_)
CStr(buf) ==
    IF buf = <<>> \/ Head(buf) = 0 THEN <<>> ELSE <<Head(buf)>> \o CStr(Tail(buf))

\* e->buffer[e->n++] = c; e->buffer[e->n] = '\0';
emit_store(m, e, c) ==
    IF e.n + 2 > e.cap
    THEN [m |-> Fault(m, "out_of_bounds_write"), e |-> e, ok |-> FALSE]
    ELSE [m |-> m, e |-> [e EXCEPT !.buffer = Append(@, c), !.n = @ + 1],
          ok |-> TRUE]

emit(m, e, c) ==
    IF e.n + 1 = e.a
    THEN LET grown == e.a + (e.a \div 2)
         IN IF ~CanAlloc(m)
            THEN [m |-> m, e |-> [e EXCEPT !.a = grown], ok |-> FALSE]
            ELSE emit_store(Took(m), [e EXCEPT !.a = grown, !.cap = grown], c)
    ELSE emit_store(m, e, c)

\* while(e->a < e->n + len + 1) e->a += e->a >> 1;
RECURSIVE emit_text_size(_, _)
emit_text_size(a, need) ==
    IF a < need THEN emit_text_size(a + (a \div 2), need) ELSE a

emit_text(m, e, t) ==
    LET len == Len(t)
        copy(m1, e1) ==
            IF e1.n + len + 1 > e1.cap
            THEN [m |-> Fault(m1, "out_of_bounds_write"), e |-> e1, ok |-> FALSE]
            ELSE [m |-> m1, e |-> [e1 EXCEPT !.buffer = @ \o t, !.n = @ + len],
                  ok |-> TRUE]
    IN IF e.a < e.n + len + 1
       THEN LET grown == emit_text_size(e.a, e.n + len + 1)
            IN IF ~CanAlloc(m)
               THEN [m |-> m, e |-> [e EXCEPT !.a = grown], ok |-> FALSE]
               ELSE copy(Took(m), [e EXCEPT !.a = grown, !.cap = grown])
       ELSE copy(m, e)

init_emitter(m, initial_size) ==
    IF ~CanAlloc(m)
    THEN [m |-> [m EXCEPT !.errors = Append(@, [fmt |-> "out of memory", line |-> 0,
                                                 text |-> <<>>])],
          e |-> [NoEmitter EXCEPT !.a = initial_size], ok |-> FALSE]
    ELSE [m |-> Took(m),
          e |-> [NoEmitter EXCEPT !.a = initial_size, !.cap = initial_size],
          ok |-> TRUE]

(***************************************************************************)
(* Lexical analyzer (json.c, "Lexical Analyzer").  The input is            *)
(* pc.text, a NUL behind it, and behind that the bytes pc.beyond that      *)
(* happen to follow the text in memory; pc.in is the cursor, an offset      *)
(* into it.  Bytes are 0..255.                                             *)
(***************************************************************************)
P_ERROR == -1
P_END == 0
P_NUMBER == 1
P_STRING == 2
P_NULL == 3
P_TRUE == 4
P_FALSE == 5

T_null == <<110, 117, 108, 108>>                          \* "null"
T_true == <<116, 114, 117, 101>>                          \* "true"
T_false == <<102, 97, 108, 115, 101>>                     \* "false"
\* "unexpected end of file"
MsgEndOfFile ==
    <<117, 110, 101, 120, 112, 101, 99, 116, 101, 100, 32, 101, 110, 100, 32,
      111, 102, 32, 102, 105, 108, 101>>
\* "unknown keyword '"
MsgKeyword ==
    <<117, 110, 107, 110, 111, 119, 110, 32, 107, 101, 121, 119, 111, 114, 100,
      32, 39>>
\* "unterminated string literal"
MsgUnterminated ==
    <<117, 110, 116, 101, 114, 109, 105, 110, 97, 116, 101, 100, 32, 115, 116,
      114, 105, 110, 103, 32, 108, 105, 116, 101, 114, 97, 108>>
\* "expected a surrogate pair with \u"
MsgSurrogate ==
    <<101, 120, 112, 101, 99, 116, 101, 100, 32, 97, 32, 115, 117, 114, 114,
      111, 103, 97, 116, 101, 32, 112, 97, 105, 114, 32, 119, 105, 116, 104,
      32, 92, 117>>
\* "bad '\uXXXX' sequence"
MsgBadU ==
    <<98, 97, 100, 32, 39, 92, 117, 88, 88, 88, 88, 39, 32, 115, 101, 113, 117,
      101, 110, 99, 101>>
\* "bad escape sequence '\"
MsgBadEscape ==
    <<98, 97, 100, 32, 101, 115, 99, 97, 112, 101, 32, 115, 101, 113, 117, 101,
      110, 99, 101, 32, 39, 92>>
\* "Unexpected token '"
MsgUnexpected ==
    <<85, 110, 101, 120, 112, 101, 99, 116, 101, 100, 32, 116, 111, 107, 101,
      110, 32, 39>>

\* <ctype.h> in the "C" locale; a char above 127 is in no class.
isspace(c) == c = 32 \/ c \in 9..13
isalpha(c) == c \in 65..90 \/ c \in 97..122
isdigit(c) == c \in 48..57
isxdigit(c) == isdigit(c) \/ c \in 65..70 \/ c \in 97..102
tolower(c) == IF c \in 65..90 THEN c + 32 ELSE c

\* pc->in[k].  Behind the modelled memory every byte reads as NUL.
In(m, k) ==
    LET i == m.pc.in + k
        n == Len(m.pc.text)
    IN IF i < n THEN m.pc.text[i + 1]
       ELSE IF i > n /\ i - n <= Len(m.pc.beyond) THEN m.pc.beyond[i - n]
       ELSE 0

\* The heap after the code read pc->in[k]: a read behind the terminating
\* NUL is a fault.
Look(m, k) ==
    IF m.pc.in + k > Len(m.pc.text) THEN Fault(m, "read_past_end") ELSE m

Adv(m, k) == [m EXCEPT !.pc.in = @ + k]
Sym(m, s) == [m EXCEPT !.pc.sym = s]

start_text(m) == [m EXCEPT !.pc.e.n = 0, !.pc.e.buffer = <<>>]

append_char(m, c) ==
    With(emit(m, m.pc.e, c % 256), LAMBDA r :
    [r.m EXCEPT !.pc.e = r.e])

\* vsnprintf into char buffer[64], then emit_text from the start.
set_textf(m, formatted) ==
    With(CStr(SubSeq(formatted, 1, IF Len(formatted) > 63 THEN 63
                                   ELSE Len(formatted))), LAMBDA t :
    With(emit_text(m, [m.pc.e EXCEPT !.n = 0, !.buffer = <<>>], t), LAMBDA r :
    [r.m EXCEPT !.pc.e = r.e]))

\* set_textf(pc, ...); return (pc->sym = P_ERROR);
lex_error(m, formatted) == Sym(set_textf(m, formatted), P_ERROR)

\* append_char(pc, *(pc->in++))
take(m) == Adv(append_char(m, In(m, 0)), 1)

\* An encoder that knows no code point above 0xFFFF.
codepoint_to_utf8_bmp(m, cp) ==
    IF cp <= 127 THEN append_char(m, cp)
    ELSE IF cp <= 2047
    THEN append_char(append_char(m, 192 + (cp \div 64)), 128 + (cp % 64))
    ELSE IF cp <= 65535
    THEN append_char(append_char(append_char(m, 224 + (cp \div 4096)),
                                 128 + ((cp \div 64) % 64)),
                     128 + (cp % 64))
    ELSE append_char(m, 63)

codepoint_to_utf8(m, cp) ==
    IF cp <= 127 THEN append_char(m, cp)
    ELSE IF cp <= 2047
    THEN append_char(append_char(m, 192 + (cp \div 64)), 128 + (cp % 64))
    ELSE IF cp <= 65535
    THEN append_char(append_char(append_char(m, 224 + (cp \div 4096)),
                                 128 + ((cp \div 64) % 64)),
                     128 + (cp % 64))
    ELSE IF cp <= 1114111
    THEN append_char(append_char(append_char(append_char(m,
                         240 + (cp \div 262144)),
                         128 + ((cp \div 4096) % 64)),
                         128 + ((cp \div 64) % 64)),
                     128 + (cp % 64))
    ELSE append_char(m, 63)

check_4_hex_digits(m) ==
    isxdigit(In(m, 0)) /\ isxdigit(In(m, 1)) /\ isxdigit(In(m, 2))
        /\ isxdigit(In(m, 3))

HexValue(c) == IF c <= 57 THEN c - 48 ELSE (tolower(c) - 97) + 10

\* The value read_4_hex_digits returns; it leaves the cursor 4 further.
read_4_hex_digits(m) ==
    (((((HexValue(In(m, 0)) * 16) + HexValue(In(m, 1))) * 16)
        + HexValue(In(m, 2))) * 16) + HexValue(In(m, 3))

\* printf's %04X of a value below 0x10000.
HexDigit(d) == IF d < 10 THEN 48 + d ELSE 55 + d
Hex4(u) == <<HexDigit(u \div 4096), HexDigit((u \div 256) % 16),
             HexDigit((u \div 16) % 16), HexDigit(u % 16)>>

\* while(isspace(pc->in[0])) { if(pc->in[0] == '\n') pc->lineno++; pc->in++; }
RECURSIVE skip_space(_)
skip_space(m) ==
    IF isspace(In(m, 0))
    THEN skip_space([m EXCEPT !.pc.in = @ + 1,
                              !.pc.lineno = IF In(m, 0) = 10 THEN @ + 1 ELSE @])
    ELSE m

\* while(pc->in[0] != '\n' && pc->in[0] != '\0') pc->in++;
RECURSIVE skip_line(_)
skip_line(m) ==
    IF In(m, 0) # 10 /\ In(m, 0) # 0 THEN skip_line(Adv(m, 1)) ELSE m

\* The loop of the block comment, from the cursor behind the "/*".  ok is
\* FALSE when it returned P_ERROR; else the cursor is where the loop
\* stopped.
RECURSIVE skip_block(_)
skip_block(m) ==
    With(IF In(m, 0) # 42 THEN Look(m, 1) ELSE m, LAMBDA m1 :
    IF In(m, 0) # 42 /\ In(m, 1) # 47
    THEN IF In(m, 0) = 0
         THEN [m |-> lex_error(m1, MsgEndOfFile), ok |-> FALSE]
         ELSE skip_block([m1 EXCEPT !.pc.in = @ + 1,
                                    !.pc.lineno = IF In(m, 0) = 10 THEN @ + 1
                                                  ELSE @])
    ELSE [m |-> m1, ok |-> TRUE])

\* while(isalpha(pc->in[0])) append_char(pc, *(pc->in++));
RECURSIVE take_alpha(_)
take_alpha(m) == IF isalpha(In(m, 0)) THEN take_alpha(take(m)) ELSE m

\* while(isdigit(pc->in[0])) append_char(pc, *(pc->in++));
RECURSIVE take_digits(_)
take_digits(m) == IF isdigit(In(m, 0)) THEN take_digits(take(m)) ELSE m

lex_keyword(m) ==
    With(take_alpha(m), LAMBDA m1 :
    With(CStr(m1.pc.e.buffer), LAMBDA word :
    IF strcmp(word, T_null) = 0 THEN Sym(m1, P_NULL)
    ELSE IF strcmp(word, T_true) = 0 THEN Sym(m1, P_TRUE)
    ELSE IF strcmp(word, T_false) = 0 THEN Sym(m1, P_FALSE)
    ELSE lex_error(m1, MsgKeyword \o word \o <<39>>)))

\* The e or E of a number and what follows it.
lex_exponent(m) ==
    With(take(m), LAMBDA a :
    \* strchr("+-", c) also finds the NUL that ends "+-"
    With(IF In(a, 0) \in {43, 45, 0} THEN take(a) ELSE a, LAMBDA b :
    take_digits(Look(b, 0))))

lex_number(m) ==
    With(IF In(m, 0) = 45 THEN take(m) ELSE m, LAMBDA m1 :
    With(take_digits(m1), LAMBDA m2 :
    With(IF In(m2, 0) = 46 THEN take_digits(take(m2)) ELSE m2, LAMBDA m3 :
    Sym(IF tolower(In(m3, 0)) = 101 THEN lex_exponent(m3) ELSE m3, P_NUMBER))))

\* The character an escape letter stands for, or -1.
Escaped(c) ==
    CASE c = 34 -> 34 [] c = 92 -> 92 [] c = 47 -> 47 [] c = 98 -> 8
      [] c = 102 -> 12 [] c = 110 -> 10 [] c = 114 -> 13 [] c = 116 -> 9
      [] OTHER -> -1

\* The loop of the string literal, from the cursor behind the opening '"'.
RECURSIVE lex_string(_)
lex_string(m) ==
    With(In(m, 0), LAMBDA c :
    IF c = 34 THEN Sym(Adv(m, 1), P_STRING)
    ELSE IF c = 0 \/ c = 10 THEN lex_error(m, MsgUnterminated)
    ELSE IF c # 92 THEN lex_string(take(m))
    ELSE
    With(Adv(m, 1), LAMBDA m1 :
    With(In(m1, 0), LAMBDA d :
    IF d = 0 THEN lex_error(m1, MsgUnterminated)
    ELSE IF Escaped(d) # -1
    THEN lex_string(Adv(append_char(m1, Escaped(d)), 1))
    ELSE IF d # 117 THEN lex_error(m1, MsgBadEscape \o <<d, 39>>)
    ELSE
    With(Adv(m1, 1), LAMBDA m2 :
    IF ~check_4_hex_digits(m2) THEN lex_error(m2, MsgBadU)
    ELSE
    With(read_4_hex_digits(m2), LAMBDA u :
    With(Adv(m2, 4), LAMBDA m3 :
    IF ~(u >= 55296 /\ u <= 57343)
    THEN lex_string(codepoint_to_utf8(m3, u))
    ELSE \* surrogate pair
    With(IF In(m3, 0) # 92 THEN Look(m3, 1) ELSE m3, LAMBDA m4 :
    With(Look(Adv(m4, 2), 0), LAMBDA m5 :
    IF In(m3, 0) # 92 /\ In(m3, 1) # 117
    THEN lex_error(m4, MsgSurrogate \o Hex4(u))
    ELSE IF ~check_4_hex_digits(m5) THEN lex_error(m5, MsgBadU)
    ELSE
    With(read_4_hex_digits(m5), LAMBDA ls :
    With(((((u - 55296) * 1024) + ls) - 56320) + 65536, LAMBDA cp :
    lex_string(codepoint_to_utf8(Adv(m5, 4), cp))))))))))))

RECURSIVE getsym(_)
getsym(m) ==
    IF In(m, 0) = 0 THEN Sym(Look(m, 0), P_END)
    ELSE With(skip_space(Look(m, 0)), LAMBDA m1 :
         With(In(m1, 0), LAMBDA c :
         IF c = 47 /\ In(m1, 1) = 47
         THEN getsym(skip_line(Adv(m1, 2)))
         ELSE IF c = 47 /\ In(m1, 1) = 42
         THEN With(skip_block(Adv(m1, 2)), LAMBDA b :
              IF b.ok THEN getsym(Adv(b.m, 2)) ELSE b.m)
         ELSE With(start_text(m1), LAMBDA m2 :
              IF isalpha(c) THEN lex_keyword(m2)
              ELSE IF isdigit(c) \/ c = 45 THEN lex_number(m2)
              ELSE IF c = 34 THEN lex_string(Adv(m2, 1))
              ELSE IF c \in {123, 125, 91, 93, 58, 44, 0} \* strchr
              THEN Sym(Adv(m2, 1), c)
              ELSE lex_error(m2, MsgUnexpected \o <<c, 39>>))))

(***************************************************************************)
(* String interning (json.c, "String Interning"): the red-black tree of    *)
(* the strings of one json_parse.  Nodes are numbered from 0; a node      *)
(* points at its string buffer without owning a reference to it.          *)
(* Reading a buffer that was freed gives strcmp whatever the allocator     *)
(* left there: pc.stale is the sign strcmp then returns.                   *)
(***************************************************************************)
BLACK == 0
RED == 1

Node(m, n) == m.pc.internNodes.array[n + 1]
ValidNode(m, n) == n >= 0 /\ n < m.pc.internNodes.n

make_intern_node(m, parent, str) ==
    With(m.pc.internNodes, LAMBDA nodes :
    With(nodes.n = nodes.a, LAMBDA full :
    With(IF full /\ CanAlloc(m)
         THEN [Took(m) EXCEPT !.pc.internNodes.a = nodes.a * 2,
                              !.pc.internNodes.cap = nodes.a * 2]
         ELSE m, LAMBDA m1 :
    IF full /\ ~CanAlloc(m)
    THEN [m |-> [m EXCEPT !.pc.internNodes.a = nodes.a * 2], r |-> -1]
    ELSE IF nodes.n >= m1.pc.internNodes.cap
    THEN [m |-> Fault(m1, "out_of_bounds_write"), r |-> -1]
    ELSE With(str_make(m1, str), LAMBDA s :
         [m |-> [s.m EXCEPT
                    !.pc.internNodes.n = @ + 1,
                    !.pc.internNodes.array =
                        Append(@, [value |-> s.r, color |-> RED,
                                   parent |-> parent,
                                   left |-> -1, right |-> -1])],
          r |-> nodes.n]))))

RECURSIVE do_str_intern(_, _, _)
do_str_intern(m, n, str) ==
    IF ~ValidNode(m, n) THEN [m |-> Fault(m, "assert"), r |-> -1]
    ELSE
    With(Node(m, n).value, LAMBDA value :
    With(IF value = NULL THEN Fault(m, "null_deref")
         ELSE IF ~LiveStr(m, value) THEN Fault(m, "use_after_free")
         ELSE m, LAMBDA m1 :
    With(IF value = NULL THEN 1
         ELSE IF ~LiveStr(m, value) THEN m.pc.stale
         ELSE strcmp(StrData(m, value), str), LAMBDA i :
    IF value = NULL THEN [m |-> m1, r |-> -1]
    ELSE IF i = 0 THEN [m |-> str_retain(m1, value), r |-> n]
    ELSE IF i > 0
    THEN IF Node(m, n).left >= 0
         THEN do_str_intern(m1, Node(m, n).left, str)
         ELSE With(make_intern_node(m1, n, str), LAMBDA l :
              [m |-> [l.m EXCEPT !.pc.internNodes.array[n + 1].left = l.r],
               r |-> l.r])
    ELSE IF Node(m, n).right >= 0
         THEN do_str_intern(m1, Node(m, n).right, str)
         ELSE With(make_intern_node(m1, n, str), LAMBDA r :
              [m |-> [r.m EXCEPT !.pc.internNodes.array[n + 1].right = r.r],
               r |-> r.r]))))

uncle(m, n) ==
    LET p == Node(m, n).parent
    IN IF p >= 0 /\ Node(m, p).parent >= 0
       THEN LET g == Node(m, p).parent
            IN IF p = Node(m, g).left THEN Node(m, g).right ELSE Node(m, g).left
       ELSE -1

rotate_left(m, n) ==
    With(Node(m, n).right, LAMBDA nnew :
    With(Node(m, n).parent, LAMBDA p :
    IF ~ValidNode(m, n) \/ nnew < 0 THEN Fault(m, "assert")
    ELSE
    With([m EXCEPT !.pc.internNodes.array[n + 1].right = Node(m, nnew).left],
         LAMBDA m1 :
    With([m1 EXCEPT !.pc.internNodes.array[nnew + 1].left = n,
                    !.pc.internNodes.array[n + 1].parent = nnew], LAMBDA m2 :
    With(IF Node(m2, n).right >= 0
         THEN [m2 EXCEPT !.pc.internNodes.array[Node(m2, n).right + 1].parent = n]
         ELSE m2, LAMBDA m3 :
    With(IF p < 0 THEN m3
         ELSE IF n = Node(m3, p).left
         THEN [m3 EXCEPT !.pc.internNodes.array[p + 1].left = nnew]
         ELSE [m3 EXCEPT !.pc.internNodes.array[p + 1].right = nnew], LAMBDA m4 :
    [m4 EXCEPT !.pc.internNodes.array[nnew + 1].parent = p]))))))

rotate_right(m, n) ==
    With(Node(m, n).left, LAMBDA nnew :
    With(Node(m, n).parent, LAMBDA p :
    IF ~ValidNode(m, n) \/ nnew < 0 THEN Fault(m, "assert")
    ELSE
    With([m EXCEPT !.pc.internNodes.array[n + 1].left = Node(m, nnew).right],
         LAMBDA m1 :
    With([m1 EXCEPT !.pc.internNodes.array[nnew + 1].right = n,
                    !.pc.internNodes.array[n + 1].parent = nnew], LAMBDA m2 :
    With(IF Node(m2, n).left >= 0
         THEN [m2 EXCEPT !.pc.internNodes.array[Node(m2, n).left + 1].parent = n]
         ELSE m2, LAMBDA m3 :
    With(IF p < 0 THEN m3
         ELSE IF n = Node(m3, p).left
         THEN [m3 EXCEPT !.pc.internNodes.array[p + 1].left = nnew]
         ELSE [m3 EXCEPT !.pc.internNodes.array[p + 1].right = nnew], LAMBDA m4 :
    [m4 EXCEPT !.pc.internNodes.array[nnew + 1].parent = p]))))))

Paint(m, n, color) == [m EXCEPT !.pc.internNodes.array[n + 1].color = color]

RECURSIVE repair_tree(_, _)
repair_tree(m, n) ==
    IF ~ValidNode(m, n) THEN Fault(m, "assert")
    ELSE
    With(Node(m, n).parent, LAMBDA p :
    IF p < 0 THEN Paint(m, n, BLACK)                                \* case 1
    ELSE IF Node(m, p).color = BLACK THEN m                         \* case 2
    ELSE
    With(uncle(m, n), LAMBDA u :
    With(Node(m, p).parent, LAMBDA g :
    IF g < 0 THEN Fault(m, "assert")
    ELSE IF u >= 0 /\ Node(m, u).color = RED                        \* case 3
    THEN repair_tree(Paint(Paint(Paint(m, p, BLACK), u, BLACK), g, RED), g)
    ELSE \* case 4
    With(n = Node(m, p).right /\ p = Node(m, g).left, LAMBDA inner_l :
    With(n = Node(m, p).left /\ p = Node(m, g).right, LAMBDA inner_r :
    With(IF inner_l THEN rotate_left(m, p)
         ELSE IF inner_r THEN rotate_right(m, p)
         ELSE m, LAMBDA m1 :
    With(IF inner_l THEN Node(m1, n).left
         ELSE IF inner_r THEN Node(m1, n).right
         ELSE n, LAMBDA n1 :
    With(IF inner_l \/ inner_r THEN Node(m1, n1).parent ELSE p, LAMBDA p1 :
    With(IF inner_l \/ inner_r THEN Node(m1, p1).parent ELSE g, LAMBDA g1 :
    IF p1 < 0 \/ g1 < 0
    THEN Fault(m1, "assert")
    ELSE \* case 4 step 2
    With(IF n1 = Node(m1, p1).left THEN rotate_right(m1, g1)
         ELSE rotate_left(m1, g1), LAMBDA m2 :
    Paint(Paint(m2, p1, BLACK), g1, RED)))))))))))

\* A walk to the root that stays at the node it starts from.
tree_root_stay(m, i, steps) == i

\* while(nodes->array[i].parent >= 0) i = nodes->array[i].parent;
RECURSIVE tree_root(_, _, _)
tree_root(m, i, steps) ==
    IF steps > m.pc.internNodes.n THEN -1
    ELSE IF Node(m, i).parent >= 0 THEN tree_root(m, Node(m, i).parent, steps + 1)
    ELSE i

str_intern(m, str) ==
    With(IF m.pc.rootIndex < 0 THEN make_intern_node(m, -1, str)
         ELSE do_str_intern(m, m.pc.rootIndex, str), LAMBDA n :
    IF n.r < 0 THEN [m |-> n.m, r |-> NULL]
    ELSE
    With(repair_tree(n.m, n.r), LAMBDA m1 :
    With(tree_root(m1, n.r, 0), LAMBDA i :
    IF i < 0 THEN [m |-> Fault(m1, "endless_loop"), r |-> NULL]
    ELSE [m |-> [m1 EXCEPT !.pc.rootIndex = i], r |-> Node(m1, n.r).value])))

(***************************************************************************)
(* Parser (json.c, "Parser").  Every function takes the heap, which        *)
(* holds the ParserContext, and gives back the heap and its result.        *)
(***************************************************************************)
\* json_error(fmt, ...): what the sink is handed.
json_error(m, fmt, line, text) ==
    [m EXCEPT !.errors = Append(@, [fmt |-> fmt, line |-> line, text |-> text])]

\* json_error("line %d: %s", pc->lineno, pc->e.buffer)
token_error(m) == json_error(m, "line %d: %s", m.pc.lineno, CStr(m.pc.e.buffer))

init_parser(m, text, start, beyond, stale) ==
    With(init_emitter(m, 32), LAMBDA e :
    With([NoParser EXCEPT !.text = text, !.beyond = beyond, !.stale = stale,
                          !.in = start, !.sym = 0, !.lineno = 1, !.e = e.e],
         LAMBDA pc0 :
    With([e.m EXCEPT !.pc = pc0], LAMBDA m1 :
    IF ~e.ok THEN [m |-> m1, ok |-> FALSE]
    ELSE IF ~CanAlloc(m1)
    THEN [m |-> [json_error(m1, "out of memory", 0, <<>>)
                    EXCEPT !.pc.e.freed = @ + 1,
                           !.pc.internNodes.a = 32],
          ok |-> FALSE]
    ELSE
    With([Took(m1) EXCEPT !.pc.internNodes = [NoNodes EXCEPT !.a = 32, !.cap = 32],
                          !.pc.rootIndex = -1], LAMBDA m2 :
    \* load the first symbol
    With(getsym(m2), LAMBDA m3 :
    IF m3.pc.sym = P_ERROR
    THEN [m |-> [token_error(m3) EXCEPT !.pc.e.freed = @ + 1], ok |-> FALSE]
    ELSE [m |-> m3, ok |-> TRUE])))))

destroy_parser(m) ==
    [m EXCEPT !.pc.internNodes.freed = IF m.pc.internNodes.cap > 0 THEN @ + 1 ELSE @,
              !.pc.e.freed = IF m.pc.e.cap > 0 THEN @ + 1 ELSE @]

accept(m, sym) ==
    IF m.pc.sym = sym
    THEN With(getsym(m), LAMBDA m1 :
         IF m1.pc.sym = P_ERROR THEN [m |-> token_error(m1), ok |-> FALSE]
         ELSE [m |-> m1, ok |-> TRUE])
    ELSE [m |-> m, ok |-> FALSE]

RECURSIVE json_parse_value(_)
RECURSIVE json_parse_object(_)
RECURSIVE json_parse_array(_)
RECURSIVE parse_members(_, _)
RECURSIVE parse_elements(_, _)

\* ht_put(v->value.object, key, value) with the key str_intern returned,
\* which is NULL when str_intern could not allocate.
put_member(m, v, key, value) ==
    IF key = NULL THEN Fault(m, "null_deref") ELSE ht_put(m, v, key, value).m

\* The do ... while(accept(pc, ',')) of json_parse_object; ok is FALSE where
\* the code says goto error.
parse_members(m, v) ==
    IF m.pc.sym # P_STRING
    THEN [m |-> json_error(m, "line %d: string expected", m.pc.lineno, <<>>),
          ok |-> FALSE]
    ELSE
    With(str_intern(m, CStr(m.pc.e.buffer)), LAMBDA key :
    With(getsym(key.m), LAMBDA m1 :
    IF m1.pc.sym = P_ERROR
    THEN [m |-> str_release(token_error(m1), key.r), ok |-> FALSE]
    ELSE
    With(accept(m1, 58), LAMBDA colon :
    IF ~colon.ok
    THEN [m |-> str_release(IF colon.m.pc.sym # P_ERROR
                            THEN json_error(colon.m, "line %d: ':' expected",
                                            colon.m.pc.lineno, <<>>)
                            ELSE colon.m,
                            key.r),
          ok |-> FALSE]
    ELSE
    With(json_parse_value(colon.m), LAMBDA value :
    IF value.r = NULL
    THEN [m |-> str_release(value.m, key.r), ok |-> FALSE]
    ELSE
    With(accept(put_member(value.m, v, key.r, value.r), 44), LAMBDA comma :
    IF comma.ok THEN parse_members(comma.m, v)
    ELSE [m |-> comma.m, ok |-> TRUE])))))

json_parse_object(m) ==
    With(json_new_object(m), LAMBDA v :
    IF v.r = NULL
    THEN [m |-> json_error(v.m, "out of memory", 0, <<>>), r |-> NULL]
    ELSE
    With(accept(v.m, 123), LAMBDA open :
    With(IF open.m.pc.sym # 125 THEN parse_members(open.m, v.r)
         ELSE [m |-> open.m, ok |-> TRUE], LAMBDA body :
    With(accept(body.m, 125), LAMBDA close :
    IF body.ok /\ close.ok THEN [m |-> close.m, r |-> v.r]
    ELSE \* error: ht_destroy(v->value.object); free(v);
    With(IF ~body.ok THEN body.m
         ELSE json_error(close.m, "line %d: '}' expected", close.m.pc.lineno, <<>>),
         LAMBDA failed :
    [m |-> free_value(ht_destroy(failed, failed.vals[v.r].object), v.r),
     r |-> NULL])))))

\* The do ... while(accept(pc, ',')) of json_parse_array.
parse_elements(m, v) ==
    With(json_parse_value(m), LAMBDA value :
    IF value.r = NULL THEN [m |-> value.m, ok |-> FALSE]
    ELSE With(accept(ar_append(value.m, v, value.r).m, 44), LAMBDA comma :
         IF comma.ok THEN parse_elements(comma.m, v)
         ELSE [m |-> comma.m, ok |-> TRUE]))

json_parse_array(m) ==
    With(json_new_array(m), LAMBDA v :
    IF v.r = NULL
    THEN [m |-> json_error(v.m, "out of memory", 0, <<>>), r |-> NULL]
    ELSE
    With(accept(v.m, 91), LAMBDA open :
    With(IF open.m.pc.sym # 93 THEN parse_elements(open.m, v.r)
         ELSE [m |-> open.m, ok |-> TRUE], LAMBDA body :
    With(accept(body.m, 93), LAMBDA close :
    IF body.ok /\ close.ok THEN [m |-> close.m, r |-> v.r]
    ELSE \* error: ar_destroy(v->value.array); free(v);
    With(IF ~body.ok THEN body.m
         ELSE json_error(close.m, "line %d: ']' expected", close.m.pc.lineno, <<>>),
         LAMBDA failed :
    [m |-> free_value(ar_destroy(failed, failed.vals[v.r].array), v.r),
     r |-> NULL])))))

\* v = malloc(sizeof *v); if(v) { ...; v->value.string = str_intern(...); }
parse_string_value(m) ==
    With(new_value(m, "j_string"), LAMBDA v :
    IF v.r = NULL THEN v
    ELSE With(str_intern(v.m, CStr(m.pc.e.buffer)), LAMBDA s :
         [m |-> [s.m EXCEPT !.vals[v.r].string = s.r], r |-> v.r]))

json_parse_value(m) ==
    IF m.pc.sym = 123 THEN json_parse_object(m)
    ELSE IF m.pc.sym = 91 THEN json_parse_array(m)
    ELSE IF m.pc.sym \notin {P_NUMBER, P_STRING, P_TRUE, P_FALSE, P_NULL}
    THEN [m |-> token_error(m), r |-> NULL]
    ELSE
    With(CASE m.pc.sym = P_NUMBER -> json_new_number(m, atof(CStr(m.pc.e.buffer)))
           [] m.pc.sym = P_STRING -> parse_string_value(m)
           [] m.pc.sym = P_TRUE -> json_true(m)
           [] m.pc.sym = P_FALSE -> json_false(m)
           [] OTHER -> json_null(m), LAMBDA v :
    IF v.r = NULL
    THEN [m |-> json_error(v.m, "out of memory", 0, <<>>), r |-> NULL]
    ELSE With(getsym(v.m), LAMBDA m1 :
         IF m1.pc.sym = P_ERROR
         THEN [m |-> json_release(m1, v.r), r |-> NULL]
         ELSE [m |-> m1, r |-> v.r]))

\* text is the caller's string; beyond and stale are what the memory
\* behind it and freed string buffers turn out to hold.
json_parse(m, text, beyond, stale) ==
    With(Len(text) >= 3 /\ SubSeq(text, 1, 3) = <<239, 187, 191>>, LAMBDA bom :
    With(init_parser(m, text, IF bom THEN 3 ELSE 0, beyond, stale), LAMBDA p :
    IF ~p.ok THEN [m |-> p.m, r |-> NULL]
    ELSE With(json_parse_value(p.m), LAMBDA j :
         [m |-> destroy_parser(j.m), r |-> j.r])))

(***************************************************************************)
(* Serializer (json.c, "Utility Functions").  A step takes and gives back  *)
(* x = [m, e, ok]: the heap, the Emitter and whether every emit so far     *)
(* succeeded; the code returns 0 at the first emit that fails, and a step  *)
(* on an x that is not ok does nothing.                                    *)
(***************************************************************************)
\* EMIT(e, c) for each character of chars, in order.
RECURSIVE emit_all(_, _)
emit_all(x, chars) ==
    IF ~x.ok \/ chars = <<>> THEN x
    ELSE emit_all(emit(x.m, x.e, Head(chars)), Tail(chars))

\* What serialize_string emits for the characters of str.
RECURSIVE escape_chars(_)
escape_chars(str) ==
    IF str = <<>> THEN <<>>
    ELSE LET c == Head(str)
             out == CASE c = 34 -> <<92, 34>> [] c = 92 -> <<92, 92>>
                      [] c = 47 -> <<92, 47>> [] c = 8 -> <<92, 98>>
                      [] c = 12 -> <<92, 102>> [] c = 10 -> <<92, 110>>
                      [] c = 13 -> <<92, 114>> [] c = 9 -> <<92, 116>>
                      [] OTHER -> <<c>>
         IN out \o escape_chars(Tail(str))

serialize_string(x, str) == emit_all(x, <<34>> \o escape_chars(str) \o <<34>>)

\* if(!emit_text(e, t)) return 0;
emit_text_step(x, t) == IF ~x.ok THEN x ELSE emit_text(x.m, x.e, t)

\* if(pretty) for(x = 0; x < count; x++) EMIT(e, ' ');
Spaces(x, pretty, count) ==
    IF pretty /\ count > 0 THEN emit_all(x, [i \in 1..count |-> 32]) ELSE x
IfPretty(x, pretty, c) == IF pretty THEN emit_all(x, <<c>>) ELSE x

RECURSIVE serialize_value(_, _, _, _)
RECURSIVE serialize_members(_, _, _, _, _, _)
RECURSIVE serialize_elements(_, _, _, _, _)

\* The while(key) loop of the j_object case; steps bounds a loop that
\* ht_next would never end.
serialize_members(x, j, key, pretty, indent, steps) ==
    IF ~x.ok \/ key = NULL THEN x
    ELSE IF steps > x.m.vals[j].object.allocated
    THEN [x EXCEPT !.m = Fault(x.m, "endless_loop"), !.ok = FALSE]
    ELSE
    With(StrData(x.m, key), LAMBDA name :
    With(serialize_string(Spaces(x, pretty, indent * 2), name), LAMBDA x1 :
    With(IfPretty(emit_all(IfPretty(x1, pretty, 32), <<58>>), pretty, 32),
         LAMBDA x2 :
    With(serialize_value(x2, ht_get(x.m, j, name), pretty, indent + 1),
         LAMBDA x3 :
    With(ht_next(x.m, j, TRUE, name), LAMBDA next :
    With(IF next.fault = "none" THEN x3
         ELSE [x3 EXCEPT !.m = Fault(x3.m, next.fault)], LAMBDA x4 :
    With(IF next.r # NULL THEN emit_all(x4, <<44>>) ELSE x4, LAMBDA x5 :
    serialize_members(IfPretty(x5, pretty, 10), j, next.r, pretty, indent,
                      steps + 1))))))))

\* A j_array loop that writes the comma behind every element.
serialize_elements_comma(x, j, i, pretty, indent) ==
    With(x.m.vals[j].array, LAMBDA a :
    IF ~x.ok \/ i >= a.n THEN x
    ELSE
    With(serialize_value(Spaces(x, pretty, indent * 2), a.elements[i + 1], pretty,
                         indent + 1), LAMBDA x1 :
    serialize_elements(IfPretty(emit_all(x1, <<44>>), pretty, 10), j, i + 1,
                       pretty, indent)))

\* The for(i = 0; i < a->n; i++) loop of the j_array case.
serialize_elements(x, j, i, pretty, indent) ==
    With(x.m.vals[j].array, LAMBDA a :
    IF ~x.ok \/ i >= a.n THEN x
    ELSE
    With(serialize_value(Spaces(x, pretty, indent * 2), a.elements[i + 1], pretty,
                         indent + 1), LAMBDA x1 :
    With(IF i < a.n - 1 THEN emit_all(x1, <<44>>) ELSE x1, LAMBDA x2 :
    serialize_elements(IfPretty(x2, pretty, 10), j, i + 1, pretty, indent))))

serialize_value(x, j, pretty, indent) ==
    IF ~x.ok THEN x
    ELSE IF j = NULL THEN [emit_text(x.m, x.e, T_null) EXCEPT !.ok = TRUE]
    ELSE
    With(x.m.vals[j], LAMBDA v :
    CASE v.type = "j_string" -> serialize_string(x, StrData(x.m, v.string))
      [] v.type = "j_number" -> emit_text_step(x, FormatG(v.number))
      [] v.type = "j_object" ->
             With(ht_next(x.m, j, FALSE, <<>>), LAMBDA first :
             With(emit_all(x, <<123>>), LAMBDA x1 :
             IF first.r = NULL THEN emit_all(x1, <<125>>)
             ELSE emit_all(Spaces(serialize_members(IfPretty(x1, pretty, 10), j,
                                                    first.r, pretty, indent, 1),
                                  pretty, (indent - 1) * 2),
                           <<125>>)))
      [] v.type = "j_array" ->
             With(emit_all(x, <<91>>), LAMBDA x1 :
             IF v.array.n = 0 THEN emit_all(x1, <<93>>)
             ELSE emit_all(Spaces(serialize_elements(IfPretty(x1, pretty, 10), j,
                                                     0, pretty, indent),
                                  pretty, (indent - 1) * 2),
                           <<93>>))
      [] v.type = "j_true" -> emit_text_step(x, T_true)
      [] v.type = "j_false" -> emit_text_step(x, T_false)
      [] OTHER -> emit_text_step(x, T_null))

\* json_serialize (pretty = FALSE) and json_pretty (pretty = TRUE): r is the
\* string returned, ok is FALSE when NULL is returned.
serialize(m, j, pretty) ==
    With(init_emitter(m, 256), LAMBDA e :
    IF ~e.ok THEN [m |-> e.m, ok |-> FALSE, r |-> <<>>]
    ELSE With(serialize_value(e, j, pretty, 1), LAMBDA x :
         IF ~x.ok THEN [m |-> x.m, ok |-> FALSE, r |-> <<>>]
         ELSE [m |-> x.m, ok |-> TRUE, r |-> CStr(x.e.buffer)]))

json_serialize(m, j) == serialize(m, j, FALSE)
json_pretty(m, j) == serialize(m, j, TRUE)

(***************************************************************************)
(* Scenario "parse": one json_parse call.  The text is the beginning of    *)
(* one of the documents below, cut after any number of bytes up to         *)
(* MaxPrefix, followed by one more lexeme or by nothing: every document    *)
(* whole, and every way of breaking it off or going wrong at any depth.    *)
(***************************************************************************)
Documents ==
    <<
      \* {"k":"s","k":1,"s":[1,"k"]}
      <<123, 34, 107, 34, 58, 34, 115, 34, 44, 34, 107, 34, 58, 49, 44, 34,
        115, 34, 58, 91, 49, 44, 34, 107, 34, 93, 125>>,
      \* [{"k":{"s":[true,null]}},"s"]
      <<91, 123, 34, 107, 34, 58, 123, 34, 115, 34, 58, 91, 116, 114, 117,
        101, 44, 110, 117, 108, 108, 93, 125, 125, 44, 34, 115, 34, 93>>,
      \* {"k":"s","k":"t","s":"s"}
      <<123, 34, 107, 34, 58, 34, 115, 34, 44, 34, 107, 34, 58, 34, 116,
        34, 44, 34, 115, 34, 58, 34, 115, 34, 125>>,
      \* [1,[-2.5e3,{"k":false}],"\n"]
      <<91, 49, 44, 91, 45, 50, 46, 53, 101, 51, 44, 123, 34, 107, 34, 58,
        102, 97, 108, 115, 101, 125, 93, 44, 34, 92, 110, 34, 93>>,
      \*  {\n"a" : "b",\n"b" : "a",\n"a":1}
      <<32, 123, 10, 34, 97, 34, 32, 58, 32, 34, 98, 34, 44, 10, 34, 98,
        34, 32, 58, 32, 34, 97, 34, 44, 10, 34, 97, 34, 58, 49, 125>>
    >>

Lexemes ==
    { <<>>, <<123>>, <<125>>, <<91>>, <<93>>, <<58>>, <<44>>,  \* { } [ ] : ,
      <<34, 107, 34>>, <<34, 115, 34>>, <<34>>,                \* "k" "s" "
      <<49>>, <<110, 117, 108, 108>>, <<64>> }                 \* 1 null @

\* What strcmp can return when it reads a buffer that was freed.
StaleOutcomes == {-1, 0, 1}

ParseInit ==
    /\ \E d \in 1..Len(Documents), n \in 0..MaxPrefix, l \in Lexemes,
          stale \in StaleOutcomes :
           /\ n <= Len(Documents[d])
           /\ plan = [text |-> SubSeq(Documents[d], 1, n) \o l, stale |-> stale]
    /\ mem = EmptyMem
    /\ last = Idle
    /\ held = NoHeld
    /\ root = NULL
    /\ iter = NoIter
    /\ shadow = NoShadow

\* j = json_parse(text)
Parse ==
    /\ last.op = "none"
    /\ \E p \in {json_parse(mem, plan.text, <<>>, plan.stale)} :
           /\ mem' = p.m
           /\ root' = p.r
           /\ last' = [op |-> "json_parse", r |-> p.r]
    /\ UNCHANGED <<held, iter, shadow, plan>>

ParseNext == Parse

SpecParse == ParseInit /\ [][ParseNext]_vars

\* C3 (the claim as stated): when json_parse fails it returns NULL and
\* every Value and every string buffer created during the parse has been
\* freed exactly once: none is left allocated and none was freed twice.
C3_FailedParseFreesAll ==
    (last.op = "json_parse" /\ last.r = NULL) =>
        /\ \A j \in 1..Len(mem.vals) : mem.vals[j].freed = 1
        /\ \A s \in 1..Len(mem.strs) : mem.strs[s].freed = 1

(***************************************************************************)
(* Scenario "round trip": the caller of the API scenario builds a tree     *)
(* and runs json_parse(json_serialize(v)) on it.                           *)
(***************************************************************************)
RtNumbers == {Double(1, 0), Double(-5, -1), Double(1234567, 0)}
RtTexts == {<<>>, <<104>>, <<34, 10, 92>>}

\* The names of the members of object Value j.
MemberNames(m, j) ==
    {StrData(m, m.vals[j].object.table[h].name) : h \in ObjRefs(m.vals[j])}

\* Structural equality of the trees under Values a and b: the same tag,
\* equal numbers, byte-equal strings, arrays of one length with equal
\* elements in order, objects with the same names and equal members.
RECURSIVE SameTree(_, _, _)
SameTree(m, a, b) ==
    IF a = NULL \/ b = NULL THEN a = b
    ELSE LET va == m.vals[a]
             vb == m.vals[b]
         IN /\ va.type = vb.type
            /\ CASE va.type = "j_number" -> va.number = vb.number
                 [] va.type = "j_string" ->
                        StrData(m, va.string) = StrData(m, vb.string)
                 [] va.type = "j_array" ->
                        /\ va.array.n = vb.array.n
                        /\ \A i \in 1..va.array.n :
                               SameTree(m, va.array.elements[i],
                                        vb.array.elements[i])
                 [] va.type = "j_object" ->
                        /\ MemberNames(m, a) = MemberNames(m, b)
                        /\ \A k \in MemberNames(m, a) :
                               SameTree(m, ht_get(m, a, k), ht_get(m, b, k))
                 [] OTHER -> TRUE

RtNewNumber ==
    \E n \in RtNumbers : Constructed(json_new_number(mem, n), "json_new_number")
RtNewString ==
    \E t \in RtTexts : Constructed(json_new_string(mem, TRUE, t), "json_new_string")

\* text = json_serialize(j); r = json_parse(text); free(text);
RoundTrip ==
    /\ CanCall
    /\ \E j \in 1..Len(mem.vals), stale \in StaleOutcomes :
           /\ held[j] > 0
           /\ \E s \in {json_serialize(mem, j)} :
              \E p \in {IF s.ok THEN json_parse(s.m, s.r, <<>>, stale)
                        ELSE [m |-> s.m, r |-> NULL]} :
                 /\ mem' = p.m
                 /\ held' = [i \in 1..Len(p.m.vals) |->
                                IF i = p.r THEN 1
                                ELSE IF i <= Len(held) THEN held[i] ELSE 0]
                 /\ last' = [op |-> "round_trip", j |-> j, text |-> s.r,
                             serialized |-> s.ok, r |-> p.r,
                             same |-> p.r # NULL /\ SameTree(p.m, j, p.r)]
    /\ Called

RtNext ==
    \/ NewObject \/ NewArray \/ RtNewNumber \/ RtNewString
    \/ NewNull \/ NewTrue \/ NewFalse
    \/ ObjSet \/ ArrayAdd
    \/ RoundTrip

SpecRT == Init /\ [][RtNext]_vars

\* C4 (the claim as stated): for a tree built with the construction API,
\* whose numbers are finite, json_parse(json_serialize(v)) succeeds and
\* yields a tree structurally equal to v.
C4_RoundTripSameTree ==
    last.op = "round_trip" => (last.serialized /\ last.r # NULL /\ last.same)

(***************************************************************************)
(* Scenario "duplicate keys": one json_parse call on an object literal     *)
(* written from a list of members, the keys and the values drawn from      *)
(* small sets, so that a key can occur again and a replaced value can be   *)
(* a string the pool holds.                                                *)
(***************************************************************************)
MaxMembers == 3

DupKeys == {<<107>>, <<115>>}                                \* k s
\* The values a member can have: the literal and the Value it stands for.
DupValues ==
    { [text |-> <<49>>, type |-> "j_number", number |-> Double(1, 0), str |-> <<>>],
      [text |-> <<50>>, type |-> "j_number", number |-> Double(2, 0), str |-> <<>>],
      [text |-> <<34, 115, 34>>, type |-> "j_string", number |-> Double(0, 0),
       str |-> <<115>>],
      [text |-> <<34, 107, 34>>, type |-> "j_string", number |-> Double(0, 0),
       str |-> <<107>>],
      [text |-> T_null, type |-> "j_null", number |-> Double(0, 0), str |-> <<>>] }

\* "key":value,"key":value,...
RECURSIVE MembersText(_)
MembersText(members) ==
    IF members = <<>> THEN <<>>
    ELSE <<34>> \o Head(members).key \o <<34, 58>> \o Head(members).val.text
         \o (IF Len(members) > 1 THEN <<44>> ELSE <<>>)
         \o MembersText(Tail(members))

ObjectText(members) == <<123>> \o MembersText(members) \o <<125>>

DupInit ==
    /\ \E n \in 1..MaxMembers, stale \in StaleOutcomes :
           \E members \in [1..n -> [key : DupKeys, val : DupValues]] :
               plan = [text |-> ObjectText(members), stale |-> stale,
                       members |-> members]
    /\ mem = EmptyMem
    /\ last = Idle
    /\ held = NoHeld
    /\ root = NULL
    /\ iter = NoIter
    /\ shadow = NoShadow

SpecDup == DupInit /\ [][ParseNext]_vars

\* The value of the last member of the literal named key.
RECURSIVE LastOf(_, _)
LastOf(members, key) ==
    IF members[Len(members)].key = key THEN members[Len(members)].val
    ELSE LastOf(SubSeq(members, 1, Len(members) - 1), key)

\* Value j is live and is what the literal val stands for.
Stands(m, j, val) ==
    /\ LiveVal(m, j)
    /\ m.vals[j].type = val.type
    /\ val.type = "j_number" => m.vals[j].number = val.number
    /\ val.type = "j_string" =>
           LiveStr(m, m.vals[j].string) /\ StrData(m, m.vals[j].string) = val.str

\* The references object Value o holds to string buffer s: as a member's
\* name and as the string of a member's value.
TreeStrRefs(m, o, s) ==
    Cardinality({h \in 1..m.vals[o].object.allocated :
                    m.vals[o].object.table[h].name = s})
    + Cardinality({h \in 1..m.vals[o].object.allocated :
                      /\ m.vals[o].object.table[h].name # NULL
                      /\ m.vals[o].object.table[h].value # NULL
                      /\ m.vals[m.vals[o].object.table[h].value].type = "j_string"
                      /\ m.vals[m.vals[o].object.table[h].value].string = s})

\* C11 (the claim as stated): parsing an object literal in which a key
\* occurs more than once yields an object with exactly one member per
\* distinct key, holding the value of the key's last occurrence, and every
\* replaced value and replaced key reference was released exactly once:
\* what is not in the object was freed once, what is in it is live and
\* counted once per reference.
C11_DuplicateKeysLastWins ==
    (last.op = "json_parse" /\ "members" \in DOMAIN plan) =>
        /\ last.r # NULL
        /\ mem.vals[last.r].type = "j_object"
        /\ LET o == mem.vals[last.r].object
               keys == {plan.members[i].key : i \in 1..Len(plan.members)}
               used == {h \in 1..o.allocated : o.table[h].name # NULL}
           IN /\ o.count = Cardinality(keys)
              /\ Cardinality(used) = Cardinality(keys)
              /\ \A key \in keys :
                     \E h \in used :
                         /\ LiveStr(mem, o.table[h].name)
                         /\ StrData(mem, o.table[h].name) = key
                         /\ Stands(mem, o.table[h].value, LastOf(plan.members, key))
              /\ \A j \in 1..Len(mem.vals) :
                     IF j = last.r \/ \E h \in used : o.table[h].value = j
                     THEN mem.vals[j].freed = 0 /\ mem.vals[j].refcount = 1
                     ELSE mem.vals[j].freed = 1
              /\ \A s \in 1..Len(mem.strs) :
                     IF TreeStrRefs(mem, last.r, s) > 0
                     THEN mem.strs[s].freed = 0
                          /\ mem.strs[s].rc = TreeStrRefs(mem, last.r, s)
                     ELSE mem.strs[s].freed = 1

\* C12 (the claim as stated): a json_parse call that fails hands the
\* json_error sink exactly one message and returns NULL; a call that
\* succeeds hands it none.
C12_OneErrorPerFailure ==
    last.op = "json_parse" =>
        Len(mem.errors) = (IF last.r = NULL THEN 1 ELSE 0)

(***************************************************************************)
(* The grammar of the specification, on the token stream getsym makes of   *)
(* a text: value := scalar | object | array,                               *)
(* object := '{' [STRING ':' value (',' STRING ':' value)*] '}',           *)
(* array := '[' [value (',' value)*] ']'.                                  *)
(***************************************************************************)
\* The tokens getsym returns from heap m on, the one m holds first, up to
\* and including the first P_END or P_ERROR.
RECURSIVE TokensFrom(_)
TokensFrom(m) ==
    IF m.pc.sym \in {P_END, P_ERROR} THEN <<m.pc.sym>>
    ELSE <<m.pc.sym>> \o TokensFrom(getsym(m))

TokenStream(text) ==
    With(Len(text) >= 3 /\ SubSeq(text, 1, 3) = <<239, 187, 191>>, LAMBDA bom :
    With(init_parser(EmptyMem, text, IF bom THEN 3 ELSE 0, <<>>, 0), LAMBDA p :
    IF p.ok THEN TokensFrom(p.m) ELSE <<P_ERROR>>))

Tok(ts, i) == IF i <= Len(ts) THEN ts[i] ELSE P_ERROR

\* GValue(ts, i): the index behind the value that starts at token i, or 0
\* when no value starts there; GMembers and GElements the same for what
\* stands between the brackets, closing bracket included.
RECURSIVE GValue(_, _)
RECURSIVE GMembers(_, _)
RECURSIVE GElements(_, _)
GValue(ts, i) ==
    IF Tok(ts, i) \in {P_NUMBER, P_STRING, P_NULL, P_TRUE, P_FALSE} THEN i + 1
    ELSE IF Tok(ts, i) = 123
    THEN IF Tok(ts, i + 1) = 125 THEN i + 2 ELSE GMembers(ts, i + 1)
    ELSE IF Tok(ts, i) = 91
    THEN IF Tok(ts, i + 1) = 93 THEN i + 2 ELSE GElements(ts, i + 1)
    ELSE 0

GMembers(ts, i) ==
    IF Tok(ts, i) # P_STRING \/ Tok(ts, i + 1) # 58 THEN 0
    ELSE With(GValue(ts, i + 2), LAMBDA v :
         IF v = 0 THEN 0
         ELSE IF Tok(ts, v) = 44 THEN GMembers(ts, v + 1)
         ELSE IF Tok(ts, v) = 125 THEN v + 1
         ELSE 0)

GElements(ts, i) ==
    With(GValue(ts, i), LAMBDA v :
    IF v = 0 THEN 0
    ELSE IF Tok(ts, v) = 44 THEN GElements(ts, v + 1)
    ELSE IF Tok(ts, v) = 93 THEN v + 1
    ELSE 0)

\* The whole token stream is one value followed by end of input.
OneValue(ts) ==
    With(GValue(ts, 1), LAMBDA v : v # 0 /\ v = Len(ts) /\ ts[v] = P_END)

\* C13 (the claim as stated): json_parse returns a Value if and only if
\* the token stream of the whole text is exactly one value of the grammar
\* followed by end of input.
C13_ValueIffGrammar ==
    (last.op = "json_parse" /\ "text" \in DOMAIN plan) =>
        (last.r # NULL <=> OneValue(TokenStream(plan.text)))

(***************************************************************************)
(* Scenario "getters": the caller of the API scenario reads members with   *)
(* json_obj_get_number_or and json_obj_get_string_or.                      *)
(***************************************************************************)
\* A char* of the caller's that points at no buffer of the heap.
CallerText == -1

json_as_number(m, j) ==
    IF m.vals[j].type = "j_number" THEN m.vals[j].number ELSE Double(0, 0)

json_as_string(m, j) ==
    IF m.vals[j].type = "j_string" THEN m.vals[j].string ELSE NULL

json_obj_get_number_or(m, j, name, def) ==
    With(json_obj_get(m, j, name), LAMBDA v :
    IF v # NULL THEN json_as_number(m, v) ELSE def)

json_obj_get_string_or(m, j, name, def) ==
    With(json_obj_get(m, j, name), LAMBDA v :
    IF v # NULL THEN json_as_string(m, v) ELSE def)

GetNumbers == {Double(0, 0), Double(7, 0)}
GetTexts == {NULL, CallerText}

GetNumberOr ==
    /\ CanCall
    /\ \E o \in 1..Len(mem.vals), k \in ApiKeys, def \in GetNumbers :
           /\ IsObject(mem, o)
           /\ last' = [op |-> "json_obj_get_number_or", j |-> o, name |-> k,
                       def |-> def, r |-> json_obj_get_number_or(mem, o, k, def)]
    /\ UNCHANGED <<mem, held>>
    /\ Called

GetStringOr ==
    /\ CanCall
    /\ \E o \in 1..Len(mem.vals), k \in ApiKeys, def \in GetTexts :
           /\ IsObject(mem, o)
           /\ last' = [op |-> "json_obj_get_string_or", j |-> o, name |-> k,
                       def |-> def, r |-> json_obj_get_string_or(mem, o, k, def)]
    /\ UNCHANGED <<mem, held>>
    /\ Called

GetNext ==
    \/ NewObject \/ NewNumber \/ NewString \/ NewNull
    \/ ObjSet
    \/ GetNumberOr \/ GetStringOr

SpecGet == Init /\ [][GetNext]_vars

\* C14 (the claim as stated): json_obj_get_number_or(obj, name, def)
\* returns def whenever obj[name] is not a number, absent or of another
\* type, and json_obj_get_string_or(obj, name, def) returns def whenever
\* obj[name] is not a string.
C14_DefaultWhenNotOfType ==
    /\ last.op = "json_obj_get_number_or" =>
           LET v == json_obj_get(mem, last.j, last.name)
           IN (v = NULL \/ mem.vals[v].type # "j_number") => last.r = last.def
    /\ last.op = "json_obj_get_string_or" =>
           LET v == json_obj_get(mem, last.j, last.name)
           IN (v = NULL \/ mem.vals[v].type # "j_string") => last.r = last.def

(***************************************************************************)
(* Scenario "pool": str_intern calls on the pool of one parser, none of    *)
(* the buffers released in between.  shadow maps every content interned    *)
(* so far to the buffer its first call returned and the number of calls.   *)
(***************************************************************************)
MaxInterns == 6

PoolTexts == {<<97>>, <<98>>, <<99>>, <<100>>, <<101>>}      \* a b c d e

\* init_parser on the empty text: the pool allocated, no node in it.
PoolInit ==
    /\ mem = init_parser(EmptyMem, <<>>, 0, <<>>, 0).m
    /\ shadow = NoShadow
    /\ plan = [nops |-> 0]
    /\ last = Idle
    /\ held = NoHeld
    /\ root = NULL
    /\ iter = NoIter

\* r = str_intern(&pc->internNodes, &pc->rootIndex, str)
PoolIntern ==
    /\ mem.fault = "none" /\ plan.nops < MaxInterns
    /\ \E str \in PoolTexts :
       \E r \in {str_intern(mem, str)} :
           /\ mem' = r.m
           /\ shadow' = IF str \in DOMAIN shadow
                        THEN [shadow EXCEPT ![str].calls = @ + 1]
                        ELSE (str :> [buf |-> r.r, calls |-> 1]) @@ shadow
           /\ last' = [op |-> "str_intern", str |-> str, r |-> r.r,
                       known |-> str \in DOMAIN shadow,
                       nodes |-> mem.pc.internNodes.n,
                       rc |-> IF str \in DOMAIN shadow
                              THEN mem.strs[shadow[str].buf].rc ELSE 0]
    /\ plan' = [plan EXCEPT !.nops = @ + 1]
    /\ UNCHANGED <<held, root, iter>>

PoolNext == PoolIntern

SpecPool == PoolInit /\ [][PoolNext]_vars

\* C15 (the claim as stated): over str_intern calls on one pool with no
\* release in between, interning a content already present returns the
\* buffer the first call returned, its reference count one higher, and
\* adds no node; the number of nodes is the number of distinct contents
\* interned so far.
C15_InternOncePerContent ==
    last.op = "str_intern" =>
        /\ last.r # NULL
        /\ LiveStr(mem, last.r)
        /\ StrData(mem, last.r) = last.str
        /\ last.r = shadow[last.str].buf
        /\ last.known =>
               /\ mem.strs[last.r].rc = last.rc + 1
               /\ mem.pc.internNodes.n = last.nodes
        /\ ~last.known =>
               /\ mem.strs[last.r].rc = 1
               /\ mem.pc.internNodes.n = last.nodes + 1
        /\ mem.pc.internNodes.n = Cardinality(DOMAIN shadow)
        /\ \A str \in DOMAIN shadow :
               mem.strs[shadow[str].buf].rc = shadow[str].calls

\* A content interned again in a pool that holds at least three contents.
C15_Witness ==
    /\ last.op = "str_intern"
    /\ last.known
    /\ Cardinality(DOMAIN shadow) >= 3
    /\ C15_InternOncePerContent

(***************************************************************************)
(* Scenario "threads": the configuration JSON_REENTRANT = 0, in which      *)
(* json_null, json_true and json_false hand out references to three global *)
(* Values.  The main thread has run json_release(json_null()); after that  *)
(* the threads call json_null/json_true/json_false and json_release, each  *)
(* on references it holds.  j->refcount++ and --j->refcount are plain      *)
(* accesses: a load and a store another thread's accesses can come         *)
(* between.  shadow holds G_null, G_true and G_false; iter holds, per      *)
(* thread, where it is (at), the Value it is working on (j, s), the count  *)
(* it loaded (reg) and the references it holds (refs).                     *)
(***************************************************************************)
NumThreads == 2
MaxCalls == 6          \* calls the threads start, threads scenario

Threads == 1..NumThreads
Singletons == {"G_null", "G_true", "G_false"}

\* G_null = new_value(j_null); G_true = ...; G_false = ...
init_globals(m) ==
    With(new_value(m, "j_null"), LAMBDA a :
    With(new_value(a.m, "j_true"), LAMBDA b :
    With(new_value(b.m, "j_false"), LAMBDA c :
        [m |-> c.m, G |-> [G_null |-> a.r, G_true |-> b.r, G_false |-> c.r]])))

\* The state json_release(json_null()) leaves: G_null was NULL, so
\* init_globals ran, G_null was retained and released again.
ThreadsInit ==
    /\ \E g \in {init_globals(EmptyMem)} :
           /\ mem = json_release(json_retain(g.m, g.G.G_null), g.G.G_null)
           /\ shadow = g.G
    /\ iter = [t \in Threads |->
                  [at |-> "idle", s |-> "G_null", j |-> NULL, reg |-> 0,
                   refs |-> [s \in Singletons |-> 0]]]
    /\ plan = [nops |-> 0]
    /\ last = Idle
    /\ held = NoHeld
    /\ root = NULL

ThreadCanCall(t) ==
    mem.fault = "none" /\ iter[t].at = "idle" /\ plan.nops < MaxCalls

\* json_null(), json_true() or json_false() of thread t, up to the load of
\* j->refcount in json_retain.  The global is not NULL, so init_globals is
\* not called; a global whose Value was freed is a dangling pointer.
ThreadSingleton(t) ==
    /\ ThreadCanCall(t)
    /\ \E s \in Singletons :
           /\ shadow[s] # NULL
           /\ mem' = IF LiveVal(mem, shadow[s]) THEN mem
                     ELSE Fault(mem, "use_after_free")
           /\ iter' = [iter EXCEPT ![t].at = "retain_store", ![t].s = s,
                                   ![t].j = shadow[s],
                                   ![t].reg = mem.vals[shadow[s]].refcount]
           /\ last' = [op |-> "json_" \o SubSeq(s, 3, Len(s)), t |-> t]
    /\ plan' = [plan EXCEPT !.nops = @ + 1]
    /\ UNCHANGED <<held, root, shadow>>

\* The store of j->refcount++, and return j.
ThreadRetainStore(t) ==
    /\ mem.fault = "none" /\ iter[t].at = "retain_store"
    /\ mem' = [mem EXCEPT !.vals[iter[t].j].refcount = iter[t].reg + 1,
                          !.vals[iter[t].j].nret = @ + 1]
    /\ iter' = [iter EXCEPT ![t].at = "idle",
                            ![t].refs[iter[t].s] = @ + 1]
    /\ UNCHANGED <<held, root, shadow, plan, last>>

\* json_release(j) of thread t on a reference it holds, up to the load of
\* j->refcount.
ThreadRelease(t) ==
    /\ ThreadCanCall(t)
    /\ \E s \in Singletons :
           /\ iter[t].refs[s] > 0
           /\ mem' = IF LiveVal(mem, shadow[s]) THEN mem
                     ELSE Fault(mem, "use_after_free")
           /\ iter' = [iter EXCEPT ![t].at = "release_store", ![t].s = s,
                                   ![t].j = shadow[s],
                                   ![t].reg = mem.vals[shadow[s]].refcount,
                                   ![t].refs[s] = @ - 1]
           /\ last' = [op |-> "json_release", t |-> t]
    /\ plan' = [plan EXCEPT !.nops = @ + 1]
    /\ UNCHANGED <<held, root, shadow>>

\* The store of --j->refcount and, when it stored 0, free(j).
ThreadReleaseStore(t) ==
    /\ mem.fault = "none" /\ iter[t].at = "release_store"
    /\ \E count \in {IF iter[t].reg = 0 THEN SIZE_MAX ELSE iter[t].reg - 1} :
           mem' = [mem EXCEPT !.vals[iter[t].j].refcount = count,
                              !.vals[iter[t].j].nrel = @ + 1,
                              !.vals[iter[t].j].freed =
                                  IF count = 0 THEN @ + 1 ELSE @]
    /\ iter' = [iter EXCEPT ![t].at = "idle"]
    /\ UNCHANGED <<held, root, shadow, plan, last>>

ThreadsNext ==
    \E t \in Threads :
        \/ ThreadSingleton(t)
        \/ ThreadRetainStore(t)
        \/ ThreadRelease(t)
        \/ ThreadReleaseStore(t)

SpecThreads == ThreadsInit /\ [][ThreadsNext]_vars

\* The references to singleton s the threads 1..t hold.
RECURSIVE RefsHeld(_, _)
RefsHeld(t, s) == IF t = 0 THEN 0 ELSE iter[t].refs[s] + RefsHeld(t - 1, s)

\* C16 (the claim as stated): with JSON_REENTRANT = 0 and
\* json_release(json_null()) called before the threads start, concurrent
\* json_null/json_true/json_false and json_release are safe: no access to
\* freed storage, no reference-count update lost (between calls a
\* singleton's count is the global's reference plus the references the
\* threads hold), and no singleton reclaimed while a thread holds a
\* reference to it.
C16_SingletonsThreadSafe ==
    /\ mem.fault = "none"
    /\ \A s \in Singletons :
           /\ (\A t \in Threads : iter[t].at = "idle") =>
                  mem.vals[shadow[s]].refcount = 1 + RefsHeld(NumThreads, s)
           /\ RefsHeld(NumThreads, s) > 0 => LiveVal(mem, shadow[s])

(***************************************************************************)
(* Scenario "surrogates": one json_parse call on a string literal that     *)
(* holds a \uXXXX escape and what follows it, the code unit and the        *)
(* follower drawn from values on both sides of the surrogate ranges.       *)
(* After the literal comes the end of the text, so the parser's last       *)
(* token is P_ERROR exactly when getsym returned it for the literal.       *)
(***************************************************************************)
IsHighSurrogate(u) == u >= 55296 /\ u <= 56319       \* 0xD800..0xDBFF
IsLowSurrogate(u) == u >= 56320 /\ u <= 57343        \* 0xDC00..0xDFFF

\* 0041 D7FF | D800 DBFF | DC00 DFFF | E000
CodeUnits == {65, 55295, 55296, 56319, 56320, 57343, 57344}

UEscape(u) == <<92, 117>> \o Hex4(u)

\* What stands behind the first escape: nothing, an escape, or other
\* characters of a string (x, xu0041, the escape \n, 0041).
Followers ==
    {[u |-> -1, text |-> t] :
        t \in {<<>>, <<120>>, <<120, 117, 48, 48, 52, 49>>, <<92, 110>>,
               <<48, 48, 52, 49>>}}
    \cup {[u |-> u, text |-> UEscape(u)] : u \in CodeUnits}

SurrInit ==
    /\ \E u \in CodeUnits, f \in Followers, stale \in StaleOutcomes :
           plan = [text |-> <<34>> \o UEscape(u) \o f.text \o <<34>>,
                   stale |-> stale, unit |-> u, follower |-> f.u]
    /\ mem = EmptyMem
    /\ last = Idle
    /\ held = NoHeld
    /\ root = NULL
    /\ iter = NoIter
    /\ shadow = NoShadow

SpecSurr == SurrInit /\ [][ParseNext]_vars

\* The literal uses a surrogate code unit outside a pair: a high surrogate
\* not followed at once by a low surrogate escape, or a low surrogate that
\* does not follow a high one.
SurrogateMisused(unit, follower) ==
    \/ IsHighSurrogate(unit) /\ ~IsLowSurrogate(follower)
    \/ IsLowSurrogate(unit)
    \/ /\ ~IsHighSurrogate(unit)
       /\ IsHighSurrogate(follower) \/ IsLowSurrogate(follower)

\* C17 (the claim as stated): inside a string literal a high surrogate
\* escape is accepted only when a low surrogate escape follows it at once,
\* and every other use of a surrogate code unit makes the lexer return the
\* Error token; a literal without such a use is lexed as a string.
C17_SurrogatePairsOnly ==
    (last.op = "json_parse" /\ "unit" \in DOMAIN plan) =>
        /\ SurrogateMisused(plan.unit, plan.follower) =>
               mem.pc.sym = P_ERROR /\ last.r = NULL
        /\ ~SurrogateMisused(plan.unit, plan.follower) =>
               mem.pc.sym = P_END /\ last.r # NULL
                   /\ mem.vals[last.r].type = "j_string"

(***************************************************************************)
(* Scenario "value expected": one json_parse call on a text that has, at   *)
(* a place where the grammar requires a value, a token no value starts     *)
(* with.  The places: the start of the text, behind '[' (but for ']',      *)
(* which closes the empty array), behind the ',' of an array and behind    *)
(* the ':' of a member, on the first line or further down.                 *)
(***************************************************************************)
\*  (start)  [  [1,  {"a":  {"a":_  \n[  [\n1,\n  {\n"a"\n:\n  [[  [{"a":
ValuePlaces ==
    {<<>>, <<91>>, <<91, 49, 44>>, <<123, 34, 97, 34, 58>>,
     <<123, 34, 97, 34, 58, 32>>, <<10, 91>>, <<91, 10, 49, 44, 10>>,
     <<123, 10, 34, 97, 34, 10, 58, 10>>, <<91, 91>>,
     <<91, 123, 34, 97, 34, 58>>}

\*  }  ]  ,  :  and the end of the text
NoValueTokens == {<<125>>, <<93>>, <<44>>, <<58>>, <<>>}

\* What may stand behind the token.
Trailers == {<<>>, <<49>>}

LineOf(place) == 1 + Cardinality({i \in 1..Len(place) : place[i] = 10})

ExpInit ==
    /\ \E place \in ValuePlaces, tok \in NoValueTokens, rest \in Trailers,
          stale \in StaleOutcomes :
           /\ ~(tok = <<93>> /\ place # <<>> /\ place[Len(place)] = 91)
           /\ tok = <<>> => rest = <<>>
           /\ plan = [text |-> place \o tok \o rest, stale |-> stale,
                      place |-> place, line |-> LineOf(place)]
    /\ mem = EmptyMem
    /\ last = Idle
    /\ held = NoHeld
    /\ root = NULL
    /\ iter = NoIter
    /\ shadow = NoShadow

SpecExp == ExpInit /\ [][ParseNext]_vars

\* Message e of the error sink cites line and says something behind it.
Describes(e, line) ==
    /\ e.fmt # "out of memory"
    /\ e.line = line
    /\ e.fmt = "line %d: %s" => e.text # <<>>

\* C18 (the claim as stated): when a token that cannot start a value
\* stands where a value is required, json_parse fails and the error sink
\* is handed a message with the current line number and a non-empty
\* description.
C18_ValueExpectedMessage ==
    (last.op = "json_parse" /\ "place" \in DOMAIN plan) =>
        /\ last.r = NULL
        /\ \E i \in 1..Len(mem.errors) : Describes(mem.errors[i], plan.line)

(***************************************************************************)
(* Scenario "serialize": a tree is built under a root object or array,     *)
(* each step adding a new number, string, empty object or empty array to   *)
(* a container of the tree, and then one container of the tree is written  *)
(* with json_serialize and with json_pretty.  The string and one of the    *)
(* member names hold a comma, the string a quote and a bracket as well.    *)
(***************************************************************************)
SerOps == 3

\* The name of the member added to an object that has i: h , j k ...
SerKey(i) == <<IF i = 1 THEN 44 ELSE 104 + i>>
SerKinds == {"number", "string", "object", "array"}

\* The constructor call that makes the Value to add.
SerMake(m, kind) ==
    CASE kind = "number" -> json_new_number(m, Double(1, 0))
      [] kind = "string" -> json_new_string(m, TRUE, <<44, 34, 93>>)
      [] kind = "object" -> json_new_object(m)
      [] OTHER -> json_new_array(m)

SerInit ==
    /\ \E c \in {json_new_object(EmptyMem), json_new_array(EmptyMem)} :
           mem = c.m /\ root = c.r
    /\ plan = [nops |-> 0]
    /\ last = Idle
    /\ held = NoHeld
    /\ iter = NoIter
    /\ shadow = NoShadow

SerCanCall ==
    mem.fault = "none" /\ plan.nops < SerOps /\ last.op # "json_serialize"

\* json_obj_set(o, name, json_new_...()), name not yet a member of o.
SerObjSet ==
    /\ SerCanCall
    /\ \E o \in 1..Len(mem.vals), kind \in SerKinds :
           /\ IsObject(mem, o)
           /\ \E v \in {SerMake(mem, kind)} :
              \E c \in {json_obj_set(v.m, o, SerKey(mem.vals[o].object.count),
                                     v.r)} :
                  /\ mem' = c.m
                  /\ last' = [op |-> "json_obj_set", j |-> o, v |-> v.r]
    /\ plan' = [plan EXCEPT !.nops = @ + 1]
    /\ UNCHANGED <<held, root, iter, shadow>>

\* json_array_add(a, json_new_...())
SerArrayAdd ==
    /\ SerCanCall
    /\ \E a \in 1..Len(mem.vals), kind \in SerKinds :
           /\ IsArray(mem, a)
           /\ \E v \in {SerMake(mem, kind)} :
              \E c \in {json_array_add(v.m, a, v.r)} :
                  /\ mem' = c.m
                  /\ last' = [op |-> "json_array_add", j |-> a, v |-> v.r]
    /\ plan' = [plan EXCEPT !.nops = @ + 1]
    /\ UNCHANGED <<held, root, iter, shadow>>

\* s = json_serialize(j); p = json_pretty(j);
SerSerialize ==
    /\ mem.fault = "none" /\ last.op # "json_serialize"
    /\ \E j \in 1..Len(mem.vals) :
           /\ IsObject(mem, j) \/ IsArray(mem, j)
           /\ \E s \in {json_serialize(mem, j)} :
              \E p \in {json_pretty(s.m, j)} :
                  /\ mem' = p.m
                  /\ last' = [op |-> "json_serialize", j |-> j,
                              ok |-> s.ok /\ p.ok,
                              compact |-> s.r, pretty |-> p.r]
    /\ UNCHANGED <<held, root, iter, shadow, plan>>

SerNext == SerObjSet \/ SerArrayAdd \/ SerSerialize

SpecSer == SerInit /\ [][SerNext]_vars

\* The members or elements container Value j has.
SizeOf(m, j) ==
    IF m.vals[j].type = "j_object" THEN m.vals[j].object.count
    ELSE m.vals[j].array.n

\* A JSON text without what is inside its string literals: of every
\* literal the opening quote is left.
RECURSIVE Skeleton(_, _, _)
Skeleton(s, i, inString) ==
    IF i > Len(s) THEN <<>>
    ELSE IF inString
    THEN IF s[i] = 92 THEN Skeleton(s, i + 2, TRUE)
         ELSE Skeleton(s, i + 1, s[i] # 34)
    ELSE <<s[i]>> \o Skeleton(s, i + 1, s[i] = 34)

\* How many containers are open at position i of skeleton sk.
DepthAt(sk, i) ==
    Cardinality({k \in 1..(i - 1) : sk[k] \in {123, 91}})
    - Cardinality({k \in 1..(i - 1) : sk[k] \in {125, 93}})

\* The first character behind position i that is not a space or a newline
\* (0 when there is none).
RECURSIVE InkAfter(_, _)
InkAfter(sk, i) ==
    IF i >= Len(sk) THEN 0
    ELSE IF sk[i + 1] \in {32, 10} THEN InkAfter(sk, i + 1)
    ELSE sk[i + 1]

\* Text s writes a container of n members: n - 1 commas separate them,
\* no comma in s is followed by a closing bracket, and every container in
\* s that has nothing inside is written as two characters.
Separated(s, n) ==
    With(Skeleton(s, 1, FALSE), LAMBDA sk :
        /\ n = 0 => s \in {<<123, 125>>, <<91, 93>>}
        /\ n >= 1 =>
               Cardinality({i \in 1..Len(sk) :
                               sk[i] = 44 /\ DepthAt(sk, i) = 1}) = n - 1
        /\ \A i \in 1..Len(sk) :
               /\ sk[i] = 44 => InkAfter(sk, i) \notin {125, 93, 44, 0}
               /\ (sk[i] = 123 /\ InkAfter(sk, i) = 125) => sk[i + 1] = 125
               /\ (sk[i] = 91 /\ InkAfter(sk, i) = 93) => sk[i + 1] = 93)

\* C19: json_serialize and json_pretty write a container of n >= 1 members
\* or elements with exactly n - 1 separating commas and none behind the
\* last one, and a container with none as exactly {} or [], nothing
\* inside; the same holds for the containers nested in it.
C19_CommasSeparate ==
    last.op = "json_serialize" =>
        /\ last.ok
        /\ Separated(last.compact, SizeOf(mem, last.j))
        /\ Separated(last.pretty, SizeOf(mem, last.j))

\* A container of three was written that holds an empty container, a
\* string with a comma in it and one more.
C19_Witness ==
    /\ last.op = "json_serialize"
    /\ SizeOf(mem, last.j) = 3
    /\ \E j \in 1..Len(mem.vals) :
           j # last.j /\ mem.vals[j].type \in {"j_object", "j_array"}
    /\ \E j \in 1..Len(mem.vals) : mem.vals[j].type = "j_string"
    /\ last.pretty # last.compact
    /\ C19_CommasSeparate

\* allocated is HASH_SIZE doubled some number of times.
RECURSIVE IsPowerOfTwo(_)
IsPowerOfTwo(n) == n = 1 \/ (n > 1 /\ n % 2 = 0 /\ IsPowerOfTwo(n \div 2))

\* C20: after ht_create and any sequence of ht_put calls the capacity is a
\* power of two >= 8, count is the number of occupied slots, no two
\* occupied slots hold equal keys and count <= 3/4 of the capacity; so a
\* slot is empty, the assertion count < allocated of ht_next holds and the
\* probe of find_entry ends for every name.
C20_TableInvariant ==
    LET ht == mem.vals[root].object
        occ == {h \in 1..ht.allocated : ht.table[h].name # NULL}
    IN /\ ht.allocated >= HASH_SIZE
       /\ IsPowerOfTwo(ht.allocated)
       /\ Len(ht.table) = ht.allocated
       /\ ht.count = Cardinality(occ)
       /\ \A a, b \in occ :
              a # b => StrData(mem, ht.table[a].name) # StrData(mem, ht.table[b].name)
       /\ 4 * ht.count <= 3 * ht.allocated
       /\ \E h \in 1..ht.allocated : ht.table[h].name = NULL
       /\ ht_next(mem, root, FALSE, <<>>).fault = "none"
       /\ \A k \in GrowKeys :
              find_entry(mem, ht.table, ht.allocated - 1, k) # -1

\* A table that grew and is filled to three quarters, with a name that
\* was put again and a name that sits behind its hash slot.
C20_Witness ==
    LET ht == mem.vals[root].object
    IN /\ ht.allocated >= 16
       /\ 4 * ht.count = 3 * ht.allocated
       /\ plan.nrep >= 1
       /\ \E h \in 1..ht.allocated :
              /\ ht.table[h].name # NULL
              /\ hash(StrData(mem, ht.table[h].name)) % ht.allocated # h - 1
       /\ C20_TableInvariant

(***************************************************************************)
(* Scenario "fill": str_intern calls on the pool of one parser, each with  *)
(* a content the pool does not hold yet, in any order, and up to MaxAgain  *)
(* calls with a content it holds, at any moment.                           *)
(***************************************************************************)
MaxAgain == 1

FillTexts == PoolTexts \cup {<<102>>}                        \* a b c d e f

\* r = str_intern(&pc->internNodes, &pc->rootIndex, str)
Intern(str) ==
    \E r \in {str_intern(mem, str)} :
        /\ mem' = r.m
        /\ shadow' = IF str \in DOMAIN shadow
                     THEN [shadow EXCEPT ![str].calls = @ + 1]
                     ELSE (str :> [buf |-> r.r, calls |-> 1]) @@ shadow
        /\ last' = [op |-> "str_intern", str |-> str, r |-> r.r,
                    known |-> str \in DOMAIN shadow,
                    nodes |-> mem.pc.internNodes.n,
                    rc |-> IF str \in DOMAIN shadow
                           THEN mem.strs[shadow[str].buf].rc ELSE 0]
        /\ UNCHANGED <<held, root, iter>>

FillInit ==
    /\ mem = init_parser(EmptyMem, <<>>, 0, <<>>, 0).m
    /\ shadow = NoShadow
    /\ plan = [nagain |-> 0]
    /\ last = Idle
    /\ held = NoHeld
    /\ root = NULL
    /\ iter = NoIter

FillNew ==
    /\ mem.fault = "none"
    /\ \E str \in FillTexts \ DOMAIN shadow : Intern(str)
    /\ UNCHANGED plan

FillAgain ==
    /\ mem.fault = "none" /\ plan.nagain < MaxAgain
    /\ \E str \in DOMAIN shadow : Intern(str)
    /\ plan' = [plan EXCEPT !.nagain = @ + 1]

FillNext == FillNew \/ FillAgain

SpecFill == FillInit /\ [][FillNext]_vars

\* The black nodes on every path from node n down to an absent child, when
\* that number is the same on all of them; -1 when it is not (or when the
\* links below n do not end within depth steps).
RECURSIVE BlackHeight(_, _, _)
BlackHeight(m, n, depth) ==
    IF n < 0 THEN 0
    ELSE IF depth = 0 THEN -1
    ELSE With(BlackHeight(m, Node(m, n).left, depth - 1), LAMBDA l :
         With(BlackHeight(m, Node(m, n).right, depth - 1), LAMBDA r :
         IF l < 0 \/ r < 0 \/ l # r THEN -1
         ELSE l + (IF Node(m, n).color = BLACK THEN 1 ELSE 0)))

\* No red node of the pool has a red child.
NoRedRed(m) ==
    \A n \in 0..(m.pc.internNodes.n - 1) :
        Node(m, n).color = RED =>
            \A c \in {Node(m, n).left, Node(m, n).right} :
                c >= 0 => Node(m, c).color = BLACK

\* C21 (the claim as stated): after every str_intern call on a pool,
\* whether it added a node or found one, the root is black, no red node
\* has a red child and every path from the root to an absent child passes
\* the same number of black nodes.
C21_RedBlackColouring ==
    last.op = "str_intern" =>
        /\ mem.fault = "none"
        /\ Node(mem, mem.pc.rootIndex).color = BLACK
        /\ NoRedRed(mem)
        /\ BlackHeight(mem, mem.pc.rootIndex, mem.pc.internNodes.n) >= 0

\* The nodes below and at n in order: left subtree, n, right subtree; depth
\* bounds the descent.
RECURSIVE InOrder(_, _, _)
InOrder(m, n, depth) ==
    IF n < 0 \/ depth = 0 THEN <<>>
    ELSE InOrder(m, Node(m, n).left, depth - 1) \o <<n>>
         \o InOrder(m, Node(m, n).right, depth - 1)

\* C22: after every str_intern call rootIndex is the one node whose parent
\* is -1, every left and right child has the node as its parent, every
\* node allocated so far is reachable from the root, and the contents in
\* order are strictly ascending for strcmp.
C22_SearchTreeShape ==
    last.op = "str_intern" =>
        LET nodes == 0..(mem.pc.internNodes.n - 1)
            order == InOrder(mem, mem.pc.rootIndex, mem.pc.internNodes.n)
        IN /\ mem.pc.rootIndex \in nodes
           /\ \A n \in nodes : Node(mem, n).parent = -1 <=> n = mem.pc.rootIndex
           /\ \A n \in nodes :
                  \A c \in {Node(mem, n).left, Node(mem, n).right} :
                      c >= 0 => c \in nodes /\ Node(mem, c).parent = n
           /\ \A n \in nodes :
                  Node(mem, n).left >= 0 => Node(mem, n).left # Node(mem, n).right
           /\ Len(order) = mem.pc.internNodes.n
           /\ {order[i] : i \in 1..Len(order)} = nodes
           /\ \A i \in 1..(Len(order) - 1) :
                  strcmp(StrData(mem, Node(mem, order[i]).value),
                         StrData(mem, Node(mem, order[i + 1]).value)) < 0

\* A call that found its content in a pool of six, after which the root
\* is another node than before and the node found has children.
C22_Witness ==
    /\ last.op = "str_intern" /\ last.known
    /\ mem.pc.internNodes.n = 6
    /\ \E n \in 0..5 :
           /\ Node(mem, n).value = last.r
           /\ Node(mem, n).left >= 0 /\ Node(mem, n).right >= 0
           /\ mem.pc.rootIndex = n
    /\ C22_SearchTreeShape

\* C23 (the claim as stated): during one json_parse every buffer a node of
\* the parse's pool refers to is live each time str_intern walks the tree,
\* also for objects with duplicate keys whose replaced value was a string:
\* str_intern never compares against, retains or returns a freed buffer,
\* so the parse ends without an access to freed storage.
C23_PoolBuffersLive ==
    (last.op = "json_parse" /\ "members" \in DOMAIN plan) =>
        /\ mem.fault = "none"
        /\ \A s \in 1..Len(mem.strs) : mem.strs[s].freed <= 1
        /\ last.r # NULL =>
               \A h \in 1..mem.vals[last.r].object.allocated :
                   LET e == mem.vals[last.r].object.table[h]
                   IN e.name # NULL =>
                          /\ LiveStr(mem, e.name)
                          /\ mem.vals[e.value].type = "j_string" =>
                                 LiveStr(mem, mem.vals[e.value].string)

(***************************************************************************)
(* Scenario "lexer": getsym called again and again on one parser context.  *)
(* The context is what init_parser sets up before it loads the first       *)
(* symbol; the text is put together from pieces: tokens, white space,      *)
(* newlines, comments of both kinds (with lone '*' and '/' inside, with    *)
(* and without their end) and texts that end in the middle of a token.     *)
(* pc.beyond is what the memory behind the terminating NUL holds.          *)
(***************************************************************************)
MaxPieces == 2
MaxSyms == 4

LexPieces ==
    { <<49>>,                                   \* 1
      <<44>>,                                   \* ,
      <<32>>,                                   \* a space
      <<10>>,                                   \* a newline
      <<47, 47, 120, 10>>,                      \* //x and a newline
      <<47, 47>>,                               \* //
      <<47, 42, 120, 42, 47>>,                  \* /*x*/
      <<47, 42, 42, 47>>,                       \* /**/
      <<47, 42, 32, 42, 32, 42, 47>>,           \* /* * */
      <<47, 42, 47, 10, 42, 47>>,               \* /*/ newline */
      <<47, 42, 32, 42>>,                       \* /* *
      <<34, 92, 113, 34>>,                      \* "\q"
      <<64>>,                                   \* @
      <<49, 101>>,                              \* 1e
      <<34, 92, 117, 68, 56, 48, 48, 92>> }     \* "\uD800\

LexBeyond == {<<>>, <<47, 49>>}

RECURSIVE Concat(_)
Concat(pieces) ==
    IF pieces = <<>> THEN <<>> ELSE Head(pieces) \o Concat(Tail(pieces))

\* pc->in = text; pc->sym = 0; pc->lineno = 1; the emitter and the pool
\* allocated: init_parser up to where it loads the first symbol.
LexContext(text, beyond) ==
    [init_parser(EmptyMem, <<>>, 0, <<>>, 0).m
        EXCEPT !.pc.text = text, !.pc.beyond = beyond]

LexInit ==
    /\ \E n \in 1..MaxPieces, beyond \in LexBeyond :
       \E pieces \in [1..n -> LexPieces] :
           mem = LexContext(Concat(pieces), beyond)
    /\ plan = [nsyms |-> 0, erred |-> FALSE]
    /\ last = Idle
    /\ held = NoHeld
    /\ root = NULL
    /\ iter = NoIter
    /\ shadow = NoShadow

\* sym = getsym(pc).  last keeps where the cursor and the line counter
\* were before the call and whether an earlier call returned P_ERROR.
GetSym ==
    /\ mem.fault = "none" /\ plan.nsyms < MaxSyms
    /\ \E m1 \in {getsym(mem)} :
           /\ mem' = m1
           /\ last' = [op |-> "getsym", sym |-> m1.pc.sym, in |-> mem.pc.in,
                       lineno |-> mem.pc.lineno, erred |-> plan.erred]
           /\ plan' = [plan EXCEPT !.nsyms = @ + 1,
                                   !.erred = @ \/ m1.pc.sym = P_ERROR]
    /\ UNCHANGED <<held, root, iter, shadow>>

LexNext == GetSym

SpecLex == LexInit /\ [][LexNext]_vars

\* C24 (the claim as stated): once getsym has returned P_ERROR on a
\* context, every further getsym call on it returns P_ERROR and leaves
\* the cursor and the line counter as they were.
C24_ErrorIsSticky ==
    (last.op = "getsym" /\ last.erred) =>
        /\ mem.pc.sym = P_ERROR
        /\ mem.pc.in = last.in
        /\ mem.pc.lineno = last.lineno

\* The offset of the first "*/" of text at or behind offset i (0-based), or
\* -1 when there is none.
RECURSIVE CommentEnd(_, _)
CommentEnd(text, i) ==
    IF i + 2 > Len(text) THEN -1
    ELSE IF text[i + 1] = 42 /\ text[i + 2] = 47 THEN i
    ELSE CommentEnd(text, i + 1)

\* The text of the context starts with a block comment.
StartsBlockComment(text) == Len(text) >= 2 /\ text[1] = 47 /\ text[2] = 42

\* C25 (the claim as stated): a block comment is skipped as a whole.  For
\* the first getsym call on a text that starts with "/*": when a "*/"
\* follows, the call returns what getsym returns on a context whose cursor
\* stands behind the first "*/" (the same token, token text and cursor);
\* when none follows, it returns P_ERROR.
C25_BlockCommentSkipped ==
    (last.op = "getsym" /\ plan.nsyms = 1 /\ StartsBlockComment(mem.pc.text)) =>
        LET end == CommentEnd(mem.pc.text, 2)
            resumed == getsym(Adv(LexContext(mem.pc.text, mem.pc.beyond), end + 2))
        IN IF end = -1 THEN mem.pc.sym = P_ERROR
           ELSE /\ mem.pc.sym = resumed.pc.sym
                /\ mem.pc.in = resumed.pc.in
                /\ CStr(mem.pc.e.buffer) = CStr(resumed.pc.e.buffer)

\* The newline characters of the text that lie before the offset `in`.
NewlinesBefore(text, in) == Cardinality({i \in 1..Len(text) : i <= in /\ text[i] = 10})

\* C26: whenever getsym returns, the line counter is 1 plus the number of
\* newline characters of the input that lie before the cursor.
C26_LineCounterCountsNewlines ==
    last.op = "getsym" =>
        mem.pc.lineno = 1 + NewlinesBefore(mem.pc.text, mem.pc.in)

(***************************************************************************)
(* Scenario "pairs": getsym calls on a string literal that holds a high    *)
(* surrogate escape followed at once by a low surrogate escape, the two    *)
(* code units drawn from the ends and the inside of their ranges, the hex  *)
(* digits in either case, with or without other characters around.        *)
(***************************************************************************)
HighUnits == {55296, 55357, 56319}        \* D800 D83D DBFF
LowUnits == {56320, 56832, 57343}         \* DC00 DE00 DFFF

Lowered(text) == [i \in 1..Len(text) |-> tolower(text[i])]

PairInit ==
    /\ \E hs \in HighUnits, ls \in LowUnits, lower \in BOOLEAN,
          lead \in {<<>>, <<120>>}, trail \in {<<>>, <<121>>} :
       \E pair \in {IF lower
                    THEN <<92, 117>> \o Lowered(Hex4(hs)) \o
                         <<92, 117>> \o Lowered(Hex4(ls))
                    ELSE UEscape(hs) \o UEscape(ls)} :
           /\ mem = LexContext(<<34>> \o lead \o pair \o trail \o <<34>>,
                               <<>>)
           /\ plan = [nsyms |-> 0, erred |-> FALSE, hs |-> hs, ls |-> ls,
                      lead |-> lead, trail |-> trail]
    /\ last = Idle
    /\ held = NoHeld
    /\ root = NULL
    /\ iter = NoIter
    /\ shadow = NoShadow

SpecPair == PairInit /\ [][LexNext]_vars

\* The code point a 4-byte UTF-8 sequence stands for, or -1 when the bytes
\* are not such a sequence.
Utf8Decode4(b) ==
    IF /\ Len(b) = 4
       /\ b[1] \in 240..247
       /\ \A i \in 2..4 : b[i] \in 128..191
    THEN ((b[1] - 240) * 262144) + ((b[2] - 128) * 4096)
             + ((b[3] - 128) * 64) + (b[4] - 128)
    ELSE -1

PairCodePoint(hs, ls) == ((hs - 55296) * 1024) + (ls - 56320) + 65536

\* The bytes the pair left in the token, between the lead and the trail.
PairBytes ==
    SubSeq(CStr(mem.pc.e.buffer), Len(plan.lead) + 1,
           Len(CStr(mem.pc.e.buffer)) - Len(plan.trail))

\* C27: a high surrogate escape followed by a low surrogate escape decodes
\* to the code point (h-0xD800)*0x400 + (l-0xDC00) + 0x10000, which lies in
\* 0x10000..0x10FFFF and is appended to the token as its 4-byte UTF-8
\* encoding.
C27_SurrogatePairDecoded ==
    (last.op = "getsym" /\ plan.nsyms = 1 /\ "hs" \in DOMAIN plan) =>
        /\ mem.pc.sym = P_STRING
        /\ PairCodePoint(plan.hs, plan.ls) \in 65536..1114111
        /\ Len(CStr(mem.pc.e.buffer)) = Len(plan.lead) + 4 + Len(plan.trail)
        /\ SubSeq(CStr(mem.pc.e.buffer), 1, Len(plan.lead)) = plan.lead
        /\ Utf8Decode4(PairBytes) = PairCodePoint(plan.hs, plan.ls)

\* "😀" has been lexed: the token holds F0 9F 98 80.
C27_Witness ==
    /\ last.op = "getsym" /\ plan.nsyms = 1 /\ "hs" \in DOMAIN plan
    /\ plan.hs = 55357 /\ plan.ls = 56832
    /\ plan.lead = <<>> /\ plan.trail = <<>>
    /\ mem.pc.sym = P_STRING
    /\ CStr(mem.pc.e.buffer) = <<240, 159, 152, 128>>

(***************************************************************************)
(* Scenario "starved growth": a run of ht_put calls on one object, or a    *)
(* run of ar_append calls on one array, each call on a heap that either    *)
(* grants every allocation or refuses every one.  The key and the value    *)
(* of a call are made before the heap is starved, so that the only         *)
(* allocation a starved call can ask for is the one that grows the         *)
(* container.                                                              *)
(***************************************************************************)
MaxPuts == 8           \* ht_put calls, starved growth scenario
MaxAppends == 10       \* ar_append calls, starved growth scenario
MaxStarved == 2        \* calls on a starved heap, starved growth scenario

StarveInit ==
    /\ \E fn \in {"ht_put", "ar_append"} :
       \E o \in {json_new_object(EmptyMem)} :
       \E a \in {json_new_array(o.m)} :
           /\ mem = a.m
           /\ root = o.r
           /\ plan = [fn |-> fn, array |-> a.r, nputs |-> 0, nkeys |-> 0,
                      nappends |-> 0, nstarved |-> 0]
    /\ held = NoHeld
    /\ last = Idle
    /\ iter = NoIter
    /\ shadow = NoShadow

\* The heap of a call: fuel 0 refuses every allocation, -1 grants all.
Fuels == IF plan.nstarved < MaxStarved THEN {0, -1} ELSE {-1}
Starving(fuel) == IF fuel = 0 THEN 1 ELSE 0

\* ht_put of a name the object does not have yet, or of its first name
\* once more.
StarvePut ==
    /\ mem.fault = "none" /\ plan.fn = "ht_put" /\ plan.nputs < MaxPuts
    /\ \E fuel \in Fuels, k \in {0, plan.nkeys} :
       \E key \in {str_make(mem, Key(k))} :
       \E v \in {json_new_number(key.m, Double(plan.nputs, 0))} :
       \E c \in {ht_put([v.m EXCEPT !.fuel = fuel], root, key.r, v.r)} :
           /\ mem' = Plenty(c.m)
           /\ last' = [op |-> "ht_put", r |-> c.r, v |-> v.r,
                       before |-> mem.vals[root].object,
                       failed |-> Failed(c, ht_put(v.m, root, key.r, v.r))]
           /\ plan' = [plan EXCEPT !.nputs = @ + 1,
                                   !.nkeys = IF k = @ /\ c.r # NULL
                                             THEN @ + 1 ELSE @,
                                   !.nstarved = @ + Starving(fuel)]
    /\ UNCHANGED <<held, root, iter, shadow>>

StarveAppend ==
    /\ mem.fault = "none" /\ plan.fn = "ar_append"
    /\ plan.nappends < MaxAppends
    /\ \E fuel \in Fuels :
       \E v \in {json_new_number(mem, Double(plan.nappends, 0))} :
       \E c \in {ar_append([v.m EXCEPT !.fuel = fuel], plan.array, v.r)} :
           /\ mem' = Plenty(c.m)
           /\ last' = [op |-> "ar_append", r |-> c.r, v |-> v.r,
                       before |-> mem.vals[plan.array].array,
                       failed |-> Failed(c, ar_append(v.m, plan.array, v.r))]
           /\ plan' = [plan EXCEPT !.nappends = @ + 1,
                                   !.nstarved = @ + Starving(fuel)]
    /\ UNCHANGED <<held, root, iter, shadow>>

StarveNext == StarvePut \/ StarveAppend

SpecStarve == StarveInit /\ [][StarveNext]_vars

\* C28: when the allocation needed to grow fails, ht_put and ar_append
\* return NULL and leave the container as it was before the call, the
\* recorded capacity still the size of the storage allocated, so that no
\* later put or append writes outside that storage.
C28_FailedGrowthLeavesContainer ==
    /\ mem.fault # "out_of_bounds_write"
    /\ mem.vals[root].object.allocated = Len(mem.vals[root].object.table)
    /\ "array" \in DOMAIN plan =>
           mem.vals[plan.array].array.a
               = Len(mem.vals[plan.array].array.elements)
    /\ (last.op = "ht_put" /\ last.failed) =>
           last.r = NULL /\ mem.vals[root].object = last.before
    /\ (last.op = "ar_append" /\ last.failed) =>
           last.r = NULL /\ mem.vals[plan.array].array = last.before

\* C29: the lexer's cursor never advances past the NUL that ends the text
\* and no byte behind that NUL is read.
C29_CursorStaysInText ==
    last.op = "getsym" =>
        /\ mem.pc.in <= Len(mem.pc.text)
        /\ mem.fault # "read_past_end"

\* C30: every json_parse call, successful or failed, has freed the token
\* text buffer and the intern pool's node array of its parser context,
\* each exactly once, by the time it returns.
C30_ParserStorageFreed ==
    (last.op = "json_parse" /\ mem.fault = "none") =>
        /\ mem.pc.e.freed = 1
        /\ mem.pc.internNodes.freed = 1
====
